---- MODULE Spec2Model ----
(***************************************************************************)
(* Last-traded-price service: the LTP service (GetLTPs), the in-memory    *)
(* TTL cache (InMemoryCache) and the Kraken client (GetTickers).          *)
(*                                                                         *)
(* Go strings are sequences of one-character strings, so that trimming,   *)
(* upper-casing, prefix tests, concatenation and byte-wise comparison are *)
(* computed as the code computes them.  Time is in seconds.               *)
(***************************************************************************)
EXTENDS Integers, Sequences, FiniteSets, TLC

VARIABLES
    store,          \* InMemoryCache.store: map from pair string to *CachedLTP
    now,            \* the wall clock read by time.Now / time.Since
    pc,             \* per request: position inside LTPService.GetLTPs
    pairsStr,       \* per request: the argument of GetLTPs
    pairs,          \* per request: the parsed pairs
    idx,            \* per request: the index of the running range loop
    result,         \* per request: the result slice
    pairsToFetch,   \* per request: the pairs that missed the cache
    ltps,           \* per request: what external.GetTickers returned
    err,            \* per request: the error GetLTPs returns ("" is nil)
    calls,          \* history: upstream invocations of the current call
    batch,          \* history: the argument of the upstream invocation
    probeLog,       \* history: the cache lookups of the current call
    writes,         \* history: the cache writes of the current call
    before,         \* history: the store as it was when the current call began
    status,         \* per request: the status code Handler.GetLTP answers with
    parseIn,        \* ParsePairs alone: the argument
    parseOut,       \* ParsePairs alone: the return values, once returned
    kpc,            \* GetTickers alone: position inside KrakenClient.GetTickers
    kpairs,         \* GetTickers alone: the argument
    kresp,          \* GetTickers alone: what the HTTP GET produced
    kout,           \* GetTickers alone: the return values, once returned
    gets,           \* history: the HTTP GETs issued by GetTickers
    mu,             \* InMemoryCache.mu: the sync.RWMutex
    gpc,            \* per goroutine: position inside a method of InMemoryCache
    gop,            \* per goroutine: the method called and its arguments
    gobs,           \* per goroutine: what its last GetLTP returned
    heap,           \* the CachedLTP values allocated and still referenced
    slot,           \* InMemoryCache.store as a map of pointers into heap
    ptr             \* per goroutine: the pointer its last GetLTP returned

\* the state of ParsePairs run alone
parseVars == <<parseIn, parseOut>>

\* the state of KrakenClient.GetTickers run alone
clientVars == <<kpc, kpairs, kresp, kout, gets>>

\* the state of the goroutines that call the methods of InMemoryCache
lockVars == <<mu, gpc, gop, gobs>>

\* the cache as a map of pointers, and the pointers handed out
refVars == <<heap, slot, ptr>>

\* what the requests of the service leave alone
aside == <<parseVars, clientVars, lockVars, refVars>>

\* the requests of the service
requestVars == <<pc, pairsStr, pairs, idx, result, pairsToFetch, ltps, err, calls,
                 batch, probeLog, writes, before, status>>

\* the cache and the requests of the service
serviceVars == <<store, now, pc, pairsStr, pairs, idx, result, pairsToFetch, ltps,
                 err, calls, batch, probeLog, writes, before, status>>

vars == <<serviceVars, aside>>

-----------------------------------------------------------------------------
(* Bounds of the model *)

\* the longest pair specification, in comma-separated tokens
MaxTokens == 2
\* how many clock steps a behaviour takes
MaxTicks == 2
\* the most keys of an upstream result map
MaxKeys == 2

\* the requests, in the order they arrive; each is one call of GetLTPs
Procs == {1, 2}

-----------------------------------------------------------------------------
(* Strings *)

\* the characters in use, in byte order
Alphabet == <<" ", "/", "B", "C", "D", "E", "F", "H", "R", "S", "T", "U", "X", "Z",
              "b", "c", "d", "e", "f", "h", "r", "s", "t", "u", "x", "z">>

Ord(c) == CHOOSE i \in 1..Len(Alphabet) : Alphabet[i] = c

LowerCase == <<"b", "c", "d", "e", "f", "h", "r", "s", "t", "u", "x", "z">>
UpperCase == <<"B", "C", "D", "E", "F", "H", "R", "S", "T", "U", "X", "Z">>

ToUpperChar(c) ==
    IF \E i \in 1..Len(LowerCase) : LowerCase[i] = c
    THEN UpperCase[CHOOSE i \in 1..Len(LowerCase) : LowerCase[i] = c]
    ELSE c

\* strings.ToUpper
ToUpper(s) == [i \in 1..Len(s) |-> ToUpperChar(s[i])]

RECURSIVE TrimLeft(_)
TrimLeft(s) == IF s # <<>> /\ Head(s) = " " THEN TrimLeft(Tail(s)) ELSE s

RECURSIVE TrimRight(_)
TrimRight(s) ==
    IF s # <<>> /\ s[Len(s)] = " " THEN TrimRight(SubSeq(s, 1, Len(s) - 1)) ELSE s

\* strings.TrimSpace
TrimSpace(s) == TrimRight(TrimLeft(s))

\* the < of Go strings: byte-wise lexicographic
RECURSIVE StrLess(_, _)
StrLess(a, b) ==
    IF b = <<>> THEN FALSE
    ELSE IF a = <<>> THEN TRUE
    ELSE IF Head(a) # Head(b) THEN Ord(Head(a)) < Ord(Head(b))
    ELSE StrLess(Tail(a), Tail(b))

-----------------------------------------------------------------------------
(* domain: pairs *)

BTCUSD == <<"B", "T", "C", "/", "U", "S", "D">>
BTCCHF == <<"B", "T", "C", "/", "C", "H", "F">>
BTCEUR == <<"B", "T", "C", "/", "E", "U", "R">>

validPairs == {BTCUSD, BTCCHF, BTCEUR}

\* NewPair that upper-cases the value as it is
NewPairNoTrim(value) ==
    LET v == ToUpper(value)
    IN  IF v \notin validPairs THEN [ok |-> FALSE, pair |-> <<>>]
        ELSE [ok |-> TRUE, pair |-> v]

\* NewPair: (Pair, error); a Pair is its value string
NewPair(value) ==
    LET v == ToUpper(TrimSpace(value))
    IN  IF v \notin validPairs THEN [ok |-> FALSE, pair |-> <<>>]
        ELSE [ok |-> TRUE, pair |-> v]

\* A raw specification string is the sequence of its comma-separated tokens
\* (what strings.Split(s, ",") returns); the empty string is the one empty token.
EmptyStr == << <<>> >>

\* the loop of ParsePairs over the tokens from index i on, result and seen so far
RECURSIVE ParseLoop(_, _, _)
ParseLoop(toks, i, acc) ==
    IF i > Len(toks) THEN [err |-> "", pairs |-> acc]
    ELSE LET np == NewPair(toks[i])
         IN  IF ~np.ok THEN [err |-> "invalid pair", pairs |-> <<>>]
             ELSE IF \E k \in 1..Len(acc) : acc[k] = np.pair
                  THEN ParseLoop(toks, i + 1, acc)
                  ELSE ParseLoop(toks, i + 1, Append(acc, np.pair))

\* the same loop skipping the tokens that are not pairs
RECURSIVE ParseLoopSkipInvalid(_, _, _)
ParseLoopSkipInvalid(toks, i, acc) ==
    IF i > Len(toks) THEN [err |-> "", pairs |-> acc]
    ELSE LET np == NewPair(toks[i])
         IN  IF ~np.ok \/ \E k \in 1..Len(acc) : acc[k] = np.pair
             THEN ParseLoopSkipInvalid(toks, i + 1, acc)
             ELSE ParseLoopSkipInvalid(toks, i + 1, Append(acc, np.pair))

ParsePairsSkipInvalid(s) ==
    IF s = EmptyStr THEN [err |-> "", pairs |-> <<BTCUSD, BTCCHF, BTCEUR>>]
    ELSE LET r == ParseLoopSkipInvalid(s, 1, <<>>)
         IN  IF r.err = "" /\ Len(r.pairs) = 0
             THEN [err |-> "at least one valid pair", pairs |-> <<>>]
             ELSE r

\* the same loop passing over the tokens that are blank
RECURSIVE ParseLoopSkipBlank(_, _, _)
ParseLoopSkipBlank(toks, i, acc) ==
    IF i > Len(toks) THEN [err |-> "", pairs |-> acc]
    ELSE IF TrimSpace(toks[i]) = <<>> THEN ParseLoopSkipBlank(toks, i + 1, acc)
    ELSE LET np == NewPair(toks[i])
         IN  IF ~np.ok THEN [err |-> "invalid pair", pairs |-> <<>>]
             ELSE IF \E k \in 1..Len(acc) : acc[k] = np.pair
                  THEN ParseLoopSkipBlank(toks, i + 1, acc)
                  ELSE ParseLoopSkipBlank(toks, i + 1, Append(acc, np.pair))

ParsePairsSkipBlank(s) ==
    IF s = EmptyStr THEN [err |-> "", pairs |-> <<BTCUSD, BTCCHF, BTCEUR>>]
    ELSE LET r == ParseLoopSkipBlank(s, 1, <<>>)
         IN  IF r.err = "" /\ Len(r.pairs) = 0
             THEN [err |-> "at least one valid pair", pairs |-> <<>>]
             ELSE r

ParsePairsEmptyIsError(s) ==
    LET r == ParseLoop(s, 1, <<>>)
    IN  IF r.err = "" /\ Len(r.pairs) = 0
        THEN [err |-> "at least one valid pair", pairs |-> <<>>]
        ELSE r

\* ParsePairs: ([]Pair, error)
ParsePairs(s) ==
    IF s = EmptyStr THEN [err |-> "", pairs |-> <<BTCUSD, BTCCHF, BTCEUR>>]
    ELSE LET r == ParseLoop(s, 1, <<>>)
         IN  IF r.err = "" /\ Len(r.pairs) = 0
             THEN [err |-> "at least one valid pair", pairs |-> <<>>]
             ELSE r

-----------------------------------------------------------------------------
(* domain: LTP and CachedLTP *)

\* time.Minute, in seconds
Minute == 60

\* LTP{Pair, Amount}.  The field obtained is history: the clock when the
\* quote was received from upstream.  It is never read by an operation.
LTP(pair, amount, t) == [Pair |-> pair, Amount |-> amount, obtained |-> t]

\* the quote without its history field
Quote(ltp) == [Pair |-> ltp.Pair, Amount |-> ltp.Amount]

\* CachedLTP.IsExpired
IsExpiredAtMinute(c) == now - c.Timestamp >= Minute

IsExpired(c) == now - c.Timestamp > Minute

\* NewCachedLTP
NewCachedLTPFetchTime(ltp) == [LTP |-> ltp, Timestamp |-> ltp.obtained]

NewCachedLTP(ltp) == [LTP |-> ltp, Timestamp |-> now]

-----------------------------------------------------------------------------
(* adapters/cache: InMemoryCache.  A pointer is a sequence of length 0 (nil) *)
(* or 1; each method runs under the cache's lock, so it is one step.         *)

\* a lookup that returns whatever entry there is
GetLTPIgnoreExpiry(pair) ==
    IF pair \notin DOMAIN store THEN [cached |-> <<>>, found |-> FALSE]
    ELSE [cached |-> <<store[pair]>>, found |-> TRUE]

\* InMemoryCache.GetLTP: (*CachedLTP, bool)
GetLTP(pair) ==
    IF pair \notin DOMAIN store THEN [cached |-> <<>>, found |-> FALSE]
    ELSE IF IsExpired(store[pair]) THEN [cached |-> <<>>, found |-> FALSE]
    ELSE [cached |-> <<store[pair]>>, found |-> TRUE]

\* a store that keeps the timestamp of the entry it overwrites
SetLTPKeepTimestamp(pair, ltp) ==
    [k \in DOMAIN store \cup {pair} |->
        IF k = pair
        THEN IF pair \in DOMAIN store
             THEN [LTP |-> ltp, Timestamp |-> store[pair].Timestamp]
             ELSE NewCachedLTP(ltp)
        ELSE store[k]]

\* InMemoryCache.SetLTP: the store after c.store[pair.Value()] = NewCachedLTP(ltp)
SetLTP(pair, ltp) ==
    [k \in DOMAIN store \cup {pair} |->
        IF k = pair THEN NewCachedLTP(ltp) ELSE store[k]]

-----------------------------------------------------------------------------
(* adapters/kraken: KrakenClient *)

XBT == <<"X", "B", "T">>
XBTUSD == <<"X", "B", "T", "U", "S", "D">>
XBTCHF == <<"X", "B", "T", "C", "H", "F">>
XBTEUR == <<"X", "B", "T", "E", "U", "R">>

\* a table without the entry of BTC/CHF
pairToKrakenSymbolNoCHF(pair) ==
    CASE pair = BTCUSD -> XBTUSD
      [] pair = BTCEUR -> XBTEUR
      [] OTHER -> pair

\* pairToKrakenSymbol
pairToKrakenSymbol(pair) ==
    CASE pair = BTCUSD -> XBTUSD
      [] pair = BTCCHF -> XBTCHF
      [] pair = BTCEUR -> XBTEUR
      [] OTHER -> pair

\* the variants tried with "XXBT" + suffix before "XXBTZ" + suffix
VariantsShortFirst(requestedSymbol) ==
    IF Len(requestedSymbol) >= 3 /\ SubSeq(requestedSymbol, 1, 3) = XBT
    THEN LET suffix == SubSeq(requestedSymbol, 4, Len(requestedSymbol))
         IN  << <<"X", "X", "B", "T">> \o suffix,
                <<"X", "X", "B", "T", "Z">> \o suffix >>
    ELSE <<>>

\* the variants findKrakenSymbolInResult tries, in order
Variants(requestedSymbol) ==
    IF Len(requestedSymbol) >= 3 /\ SubSeq(requestedSymbol, 1, 3) = XBT
    THEN LET suffix == SubSeq(requestedSymbol, 4, Len(requestedSymbol))
         IN  << <<"X", "X", "B", "T", "Z">> \o suffix,
                <<"X", "X", "B", "T">> \o suffix >>
    ELSE <<>>

\* the search that falls back on some key whenever the map is not empty
findKrakenSymbolAnyKey(tickerResult, requestedSymbol) ==
    LET vs  == Variants(requestedSymbol)
        hit == {i \in 1..Len(vs) : vs[i] \in DOMAIN tickerResult}
        none == [C |-> <<>>]
    IN  IF requestedSymbol \in DOMAIN tickerResult
        THEN [tickerData |-> tickerResult[requestedSymbol], symbol |-> requestedSymbol,
              ok |-> TRUE]
        ELSE IF hit # {}
        THEN LET v == vs[CHOOSE i \in hit : \A k \in hit : i <= k]
             IN  [tickerData |-> tickerResult[v], symbol |-> v, ok |-> TRUE]
        ELSE IF Cardinality(DOMAIN tickerResult) >= 1
        THEN LET some == CHOOSE k \in DOMAIN tickerResult : TRUE
             IN  [tickerData |-> tickerResult[some], symbol |-> some, ok |-> TRUE]
        ELSE [tickerData |-> none, symbol |-> <<>>, ok |-> FALSE]

\* findKrakenSymbolInResult: (KrakenTickerData, string, bool); the result map
\* is a function from the response keys to ticker data
findKrakenSymbolInResult(tickerResult, requestedSymbol) ==
    LET vs  == Variants(requestedSymbol)
        hit == {i \in 1..Len(vs) : vs[i] \in DOMAIN tickerResult}
        none == [C |-> <<>>]
    IN  IF requestedSymbol \in DOMAIN tickerResult
        THEN [tickerData |-> tickerResult[requestedSymbol], symbol |-> requestedSymbol,
              ok |-> TRUE]
        ELSE IF hit # {}
        THEN LET v == vs[CHOOSE i \in hit : \A k \in hit : i <= k]
             IN  [tickerData |-> tickerResult[v], symbol |-> v, ok |-> TRUE]
        ELSE IF Cardinality(DOMAIN tickerResult) = 1
        THEN LET only == CHOOSE k \in DOMAIN tickerResult : TRUE
             IN  [tickerData |-> tickerResult[only], symbol |-> only, ok |-> TRUE]
        ELSE [tickerData |-> none, symbol |-> <<>>, ok |-> FALSE]

Digits == <<"0", "1", "2", "3", "4", "5", "6", "7", "8", "9">>

IsDigit(c) == \E i \in 1..Len(Digits) : Digits[i] = c

DigitValue(c) == (CHOOSE i \in 1..Len(Digits) : Digits[i] = c) - 1

RECURSIVE DecimalValue(_)
DecimalValue(s) ==
    IF s = <<>> THEN 0
    ELSE 10 * DecimalValue(SubSeq(s, 1, Len(s) - 1)) + DigitValue(s[Len(s)])

\* strconv.ParseFloat(s, 64) on the price strings of the model: an optional
\* sign and decimal digits; anything else is a syntax error
ParseFloat(s) ==
    LET neg  == s # <<>> /\ Head(s) = "-"
        body == IF neg THEN Tail(s) ELSE s
    IN  IF body # <<>> /\ \A i \in 1..Len(body) : IsDigit(body[i])
        THEN [ok |-> TRUE,
              value |-> IF neg THEN 0 - DecimalValue(body) ELSE DecimalValue(body)]
        ELSE [ok |-> FALSE, value |-> 0]

\* http.StatusOK, http.StatusBadRequest
StatusOK == 200
StatusBadRequest == 400
\* a status the provider answers with when it fails
StatusInternalServerError == 500

\* the return values of GetTickers: the error as the fixed part of its
\* message ("" is nil) with the pair the message names, and the LTPs
Failed(msg, pair) == [err |-> msg, named |-> pair, ltps |-> <<>>]

\* the mapping loop when a pair that cannot be mapped is left out
RECURSIVE MapResponseDropFailing(_, _, _, _)
MapResponseDropFailing(ps, i, tickerResult, acc) ==
    IF i > Len(ps) THEN [err |-> "", named |-> <<>>, ltps |-> acc]
    ELSE LET f == findKrakenSymbolInResult(tickerResult, pairToKrakenSymbol(ps[i]))
             a == ParseFloat(f.tickerData.C[1])
         IN  IF ~f.ok \/ Len(f.tickerData.C) = 0 \/ f.tickerData.C[1] = <<>> \/ ~a.ok
             THEN MapResponseDropFailing(ps, i + 1, tickerResult, acc)
             ELSE MapResponseDropFailing(ps, i + 1, tickerResult,
                      Append(acc, [Pair |-> ps[i], Amount |-> a.value]))

\* the mapping loop when an empty price goes to the parser like any other
RECURSIVE MapResponseParseEmpty(_, _, _, _)
MapResponseParseEmpty(ps, i, tickerResult, acc) ==
    IF i > Len(ps) THEN [err |-> "", named |-> <<>>, ltps |-> acc]
    ELSE LET f == findKrakenSymbolInResult(tickerResult, pairToKrakenSymbol(ps[i]))
         IN  IF ~f.ok THEN Failed("no data found for symbol", ps[i])
             ELSE IF Len(f.tickerData.C) = 0
             THEN Failed("invalid ticker data", ps[i])
             ELSE LET a == ParseFloat(f.tickerData.C[1])
                  IN  IF ~a.ok THEN Failed("failed to parse amount", ps[i])
                      ELSE MapResponseParseEmpty(ps, i + 1, tickerResult,
                               Append(acc, [Pair |-> ps[i], Amount |-> a.value]))

\* the loop naming each quote by the key it was found under
RECURSIVE MapResponseKeyedBySymbol(_, _, _, _)
MapResponseKeyedBySymbol(ps, i, tickerResult, acc) ==
    IF i > Len(ps) THEN [err |-> "", named |-> <<>>, ltps |-> acc]
    ELSE LET f == findKrakenSymbolInResult(tickerResult, pairToKrakenSymbol(ps[i]))
         IN  IF ~f.ok THEN Failed("no data found for symbol", ps[i])
             ELSE IF Len(f.tickerData.C) = 0 \/ f.tickerData.C[1] = <<>>
             THEN Failed("invalid ticker data", ps[i])
             ELSE LET a == ParseFloat(f.tickerData.C[1])
                  IN  IF ~a.ok THEN Failed("failed to parse amount", ps[i])
                      ELSE MapResponseKeyedBySymbol(ps, i + 1, tickerResult,
                               Append(acc, [Pair |-> f.symbol, Amount |-> a.value]))

\* the loop of GetTickers that maps the response to domain LTPs, from index i on
RECURSIVE MapResponse(_, _, _, _)
MapResponse(ps, i, tickerResult, acc) ==
    IF i > Len(ps) THEN [err |-> "", named |-> <<>>, ltps |-> acc]
    ELSE LET f == findKrakenSymbolInResult(tickerResult, pairToKrakenSymbol(ps[i]))
         IN  IF ~f.ok THEN Failed("no data found for symbol", ps[i])
             ELSE IF Len(f.tickerData.C) = 0 \/ f.tickerData.C[1] = <<>>
             THEN Failed("invalid ticker data", ps[i])
             ELSE LET a == ParseFloat(f.tickerData.C[1])
                  IN  IF ~a.ok THEN Failed("failed to parse amount", ps[i])
                      ELSE MapResponse(ps, i + 1, tickerResult,
                               Append(acc, [Pair |-> ps[i], Amount |-> a.value]))

\* GetTickers when the provider's error list fails the batch only if the
\* result is empty
GetTickersErrorListIfNoResult(ps, resp) ==
    IF Len(ps) = 0 THEN Failed("no pairs provided", <<>>)
    ELSE IF resp.transport # "" THEN Failed("failed to call Kraken API", <<>>)
    ELSE IF resp.StatusCode # StatusOK THEN Failed("kraken API returned status", <<>>)
    ELSE IF resp.readErr THEN Failed("failed to read response body", <<>>)
    ELSE IF ~resp.json THEN Failed("failed to unmarshal response", <<>>)
    ELSE IF Len(resp.Error) > 0 /\ DOMAIN resp.Result = {}
    THEN Failed("kraken API error", <<>>)
    ELSE MapResponse(ps, 1, resp.Result, <<>>)

\* GetTickers when the status is looked at only if the body is no JSON
GetTickersStatusAfterBody(ps, resp) ==
    IF Len(ps) = 0 THEN Failed("no pairs provided", <<>>)
    ELSE IF resp.transport # "" THEN Failed("failed to call Kraken API", <<>>)
    ELSE IF resp.readErr THEN Failed("failed to read response body", <<>>)
    ELSE IF ~resp.json
    THEN IF resp.StatusCode # StatusOK
         THEN Failed("kraken API returned status", <<>>)
         ELSE Failed("failed to unmarshal response", <<>>)
    ELSE IF Len(resp.Error) > 0 THEN Failed("kraken API error", <<>>)
    ELSE MapResponse(ps, 1, resp.Result, <<>>)

\* KrakenClient.GetTickers on what the HTTP GET produced, resp: ([]LTP, error)
GetTickers(ps, resp) ==
    IF Len(ps) = 0 THEN Failed("no pairs provided", <<>>)
    ELSE IF resp.transport # "" THEN Failed("failed to call Kraken API", <<>>)
    ELSE IF resp.StatusCode # StatusOK THEN Failed("kraken API returned status", <<>>)
    ELSE IF resp.readErr THEN Failed("failed to read response body", <<>>)
    ELSE IF ~resp.json THEN Failed("failed to unmarshal response", <<>>)
    ELSE IF Len(resp.Error) > 0 THEN Failed("kraken API error", <<>>)
    ELSE MapResponse(ps, 1, resp.Result, <<>>)

-----------------------------------------------------------------------------
(* The inputs: pair specifications, clock steps, upstream responses *)

TokUSD == BTCUSD
TokEUR == <<" ", "b", "t", "c", "/", "e", "u", "r">>
TokCHF == <<"B", "T", "C", "/", "c", "h", "f", " ">>
TokBad == <<"B", "T", "C", "/", "X", "R", "Z">>
TokEmpty == <<>>

Tokens == {TokUSD, TokEUR, TokCHF, TokBad, TokEmpty}

\* the strings GetLTPs is called with; <<TokEmpty>> is the empty string
RawSpecs == UNION {[1..n -> Tokens] : n \in 1..MaxTokens}

\* the strings the first request is called with
WarmSpecs == {<<TokUSD>>, <<TokUSD, TokEUR>>}

\* the clock advances in minutes
TickStep == Minute

XXBTZUSD == <<"X", "X", "B", "T", "Z", "U", "S", "D">>
XXBTUSD == <<"X", "X", "B", "T", "U", "S", "D">>
XXBTZEUR == <<"X", "X", "B", "T", "Z", "E", "U", "R">>
XXBTCHF == <<"X", "X", "B", "T", "C", "H", "F">>
UNKNOWN == <<"U", "N", "K", "N", "O", "W", "N">>

ResponseKeys == {XBTUSD, XXBTZUSD, XXBTUSD, XXBTZEUR, XXBTCHF, UNKNOWN}

\* KrakenTickerData: the list c, absent, or with a first element that is
\* empty, not a number, or a price
TickerDatas ==
    {[C |-> <<>>], [C |-> << <<>> >>], [C |-> << <<"x">> >>],
     [C |-> << <<"1">> >>], [C |-> << <<"2">> >>]}

ResultMaps ==
    UNION {[K -> TickerDatas] :
              K \in {S \in SUBSET ResponseKeys : Cardinality(S) <= MaxKeys}}

\* what the HTTP GET can produce: a transport error (connection, timeout), or
\* a response with a status and a body that cannot be read, is no JSON, or is
\* JSON with an error list and a result map
Responses ==
    {[transport |-> "timeout", StatusCode |-> 0, readErr |-> FALSE, json |-> FALSE,
      Error |-> <<>>, Result |-> <<>>]}
    \cup {[transport |-> "", StatusCode |-> StatusOK, readErr |-> TRUE,
           json |-> FALSE, Error |-> <<>>, Result |-> <<>>]}
    \cup {[transport |-> "", StatusCode |-> StatusOK, readErr |-> FALSE,
           json |-> FALSE, Error |-> <<>>, Result |-> <<>>]}
    \cup [transport : {""}, StatusCode : {StatusOK, StatusInternalServerError},
          readErr : {FALSE}, json : {TRUE},
          Error : {<<>>, <<"EGeneral">>}, Result : ResultMaps]

\* the non-empty sequences of distinct pairs
Batches ==
    {b \in UNION {[1..n -> validPairs] : n \in 1..Cardinality(validPairs)} :
        \A i, j \in 1..Len(b) : i # j => b[i] # b[j]}

\* every <<b, GetTickers(b, r)>>: the returns of GetTickers over the responses
Outcomes == {<<b, GetTickers(b, r)>> : b \in Batches, r \in Responses}

-----------------------------------------------------------------------------
(* sort.Slice(result, less by Pair.Value()): a permutation of the slice in   *)
(* which no element is less than an earlier one; the order of elements that  *)
(* compare equal is not specified                                            *)

Rearrangements(s) ==
    {[i \in 1..Len(s) |-> s[f[i]]] :
        f \in {g \in [1..Len(s) -> 1..Len(s)] :
                 \A i, j \in 1..Len(s) : i # j => g[i] # g[j]}}

SortSliceUnsorted(s) == {s}

\* a sort whose less function has the comparison turned round
SortSliceDescending(s) ==
    {t \in Rearrangements(s) :
        \A i, j \in 1..Len(t) : i < j => ~StrLess(t[i].Pair, t[j].Pair)}

SortSlice(s) ==
    {t \in Rearrangements(s) :
        \A i, j \in 1..Len(t) : i < j => ~StrLess(t[j].Pair, t[i].Pair)}

-----------------------------------------------------------------------------
(* application/service: LTPService.GetLTPs, one request per element of Procs *)

\* no request is at its return: a return is observed as the instant between
\* the step that produces the return values and Return, with nothing between
Quiet == \A q \in Procs : pc[q] # "done"

\* no request has begun
RequestsAtRest ==
    /\ store = <<>>
    /\ now = 0
    /\ pc = [p \in Procs |-> "idle"]
    /\ pairsStr = [p \in Procs |-> EmptyStr]
    /\ pairs = [p \in Procs |-> <<>>]
    /\ idx = [p \in Procs |-> 1]
    /\ result = [p \in Procs |-> <<>>]
    /\ pairsToFetch = [p \in Procs |-> <<>>]
    /\ ltps = [p \in Procs |-> <<>>]
    /\ err = [p \in Procs |-> <<>>]
    /\ calls = [p \in Procs |-> 0]
    /\ batch = [p \in Procs |-> <<>>]
    /\ probeLog = [p \in Procs |-> <<>>]
    /\ writes = [p \in Procs |-> <<>>]
    /\ before = [p \in Procs |-> <<>>]
    /\ status = [p \in Procs |-> 0]

\* ParsePairs is not run alone
ParserAtRest ==
    /\ parseIn = EmptyStr
    /\ parseOut = <<>>

\* GetTickers is not run alone
ClientAtRest ==
    /\ kpc = "off"
    /\ kpairs = <<>>
    /\ kresp = <<>>
    /\ kout = <<>>
    /\ gets = 0

\* the goroutines that call the methods of InMemoryCache
Goroutines == {1, 2, 3}

\* no method called yet
NoOp == [op |-> "none", pair |-> <<>>, amount |-> 0]

\* no goroutine is in a method of the cache and the mutex is free
LocksAtRest ==
    /\ mu = [readers |-> 0, writer |-> FALSE, pending |-> FALSE]
    /\ gpc = [g \in Goroutines |-> "idle"]
    /\ gop = [g \in Goroutines |-> NoOp]
    /\ gobs = [g \in Goroutines |-> <<>>]

\* nothing is allocated and no pointer is handed out
RefsAtRest ==
    /\ heap = <<>>
    /\ slot = <<>>
    /\ ptr = [g \in Goroutines |-> <<>>]

Init ==
    /\ RequestsAtRest
    /\ ParserAtRest
    /\ ClientAtRest
    /\ LocksAtRest
    /\ RefsAtRest

\* time passes
Tick ==
    /\ Quiet
    /\ now < MaxTicks * TickStep
    /\ now' = now + TickStep
    /\ UNCHANGED <<store, pc, pairsStr, pairs, idx, result, pairsToFetch, ltps, err,
                   calls, batch, probeLog, writes, before>>
    /\ UNCHANGED <<status, aside>>

\* GetLTPs is called with s: ParsePairs and the error return
Enter(p, s) ==
    /\ Quiet
    /\ pc[p] = "idle"
    /\ pairsStr' = [pairsStr EXCEPT ![p] = s]
    /\ before' = [before EXCEPT ![p] = store]
    /\ LET r == ParsePairs(s)
       IN  IF r.err # ""
           THEN /\ err' = [err EXCEPT ![p] = <<"invalid pairs", r.err>>]
                /\ pc' = [pc EXCEPT ![p] = "done"]
                /\ UNCHANGED pairs
           ELSE /\ pairs' = [pairs EXCEPT ![p] = r.pairs]
                /\ pc' = [pc EXCEPT ![p] = IF Len(r.pairs) > 0 THEN "probe"
                                           ELSE "sort"]
                /\ UNCHANGED err
    /\ UNCHANGED <<store, now, idx, result, pairsToFetch, ltps, calls, batch,
                   probeLog, writes>>
    /\ UNCHANGED <<status, aside>>

\* a request begins when the requests before it have returned.  The first
\* asks for one of WarmSpecs, a later one for anything
Start(p) ==
    /\ \A q \in Procs : q < p => pc[q] = "returned"
    /\ \E s \in IF \A q \in Procs : p <= q THEN WarmSpecs ELSE RawSpecs : Enter(p, s)

\* one iteration of the loop "check cache first"
ProbeFetchAlways(p) ==
    /\ Quiet
    /\ pc[p] = "probe"
    /\ LET pair == pairs[p][idx[p]]
           g    == GetLTP(pair)
           more == idx[p] < Len(pairs[p])
       IN  /\ result' = [result EXCEPT ![p] =
                 IF g.found /\ g.cached # <<>> THEN Append(@, g.cached[1].LTP) ELSE @]
           /\ pairsToFetch' = [pairsToFetch EXCEPT ![p] = Append(@, pair)]
           /\ probeLog' = [probeLog EXCEPT ![p] =
                 Append(@, [pair |-> pair, found |-> g.found,
                            age |-> IF pair \in DOMAIN store
                                    THEN now - store[pair].Timestamp ELSE 0 - 1])]
           /\ idx' = [idx EXCEPT ![p] = IF more THEN @ + 1 ELSE 1]
           /\ pc' = [pc EXCEPT ![p] = IF more THEN "probe" ELSE "call"]
    /\ UNCHANGED <<store, now, pairsStr, pairs, ltps, err, calls, batch, writes,
                   before>>
    /\ UNCHANGED <<status, aside>>

\* a lookup that deletes the entry it finds expired
ProbeEvictExpired(p) ==
    /\ Quiet
    /\ pc[p] = "probe"
    /\ LET pair == pairs[p][idx[p]]
           g    == GetLTP(pair)
           hit  == g.found /\ g.cached # <<>>
           more == idx[p] < Len(pairs[p])
           miss == IF hit THEN pairsToFetch[p] ELSE Append(pairsToFetch[p], pair)
       IN  /\ result' = [result EXCEPT ![p] =
                 IF hit THEN Append(@, g.cached[1].LTP) ELSE @]
           /\ store' = IF hit THEN store
                       ELSE [k \in DOMAIN store \ {pair} |-> store[k]]
           /\ pairsToFetch' = [pairsToFetch EXCEPT ![p] = miss]
           /\ probeLog' = [probeLog EXCEPT ![p] =
                 Append(@, [pair |-> pair, found |-> g.found,
                            age |-> IF pair \in DOMAIN store
                                    THEN now - store[pair].Timestamp ELSE 0 - 1])]
           /\ idx' = [idx EXCEPT ![p] = IF more THEN @ + 1 ELSE 1]
           /\ pc' = [pc EXCEPT ![p] = IF more THEN "probe"
                                      ELSE IF Len(miss) > 0 THEN "call" ELSE "sort"]
    /\ UNCHANGED <<now, pairsStr, pairs, ltps, err, calls, batch, writes, before>>
    /\ UNCHANGED <<status, aside>>

Probe(p) ==
    /\ Quiet
    /\ pc[p] = "probe"
    /\ LET pair == pairs[p][idx[p]]
           g    == GetLTP(pair)
           hit  == g.found /\ g.cached # <<>>
           more == idx[p] < Len(pairs[p])
           miss == IF hit THEN pairsToFetch[p] ELSE Append(pairsToFetch[p], pair)
       IN  /\ result' = [result EXCEPT ![p] =
                 IF hit THEN Append(@, g.cached[1].LTP) ELSE @]
           /\ pairsToFetch' = [pairsToFetch EXCEPT ![p] = miss]
           /\ probeLog' = [probeLog EXCEPT ![p] =
                 Append(@, [pair |-> pair, found |-> g.found,
                            age |-> IF pair \in DOMAIN store
                                    THEN now - store[pair].Timestamp ELSE 0 - 1])]
           /\ idx' = [idx EXCEPT ![p] = IF more THEN @ + 1 ELSE 1]
           /\ pc' = [pc EXCEPT ![p] = IF more THEN "probe"
                                      ELSE IF Len(miss) > 0 THEN "call" ELSE "sort"]
    /\ UNCHANGED <<store, now, pairsStr, pairs, ltps, err, calls, batch, writes,
                   before>>
    /\ UNCHANGED <<status, aside>>

\* a call that marks the pairs it is about to fetch in the cache, with a
\* quote of amount 0, before it invokes upstream
CallMarksPending(p) ==
    /\ Quiet
    /\ pc[p] = "call"
    /\ calls' = [calls EXCEPT ![p] = @ + 1]
    /\ batch' = [batch EXCEPT ![p] = pairsToFetch[p]]
    /\ LET pending == {pairsToFetch[p][i] : i \in 1..Len(pairsToFetch[p])}
       IN  store' = [k \in DOMAIN store \cup pending |->
                       IF k \in pending
                       THEN NewCachedLTP(LTP(k, 0, now)) ELSE store[k]]
    /\ pc' = [pc EXCEPT ![p] = "wait"]
    /\ UNCHANGED <<now, pairsStr, pairs, idx, result, pairsToFetch, ltps, err,
                   probeLog, writes, before>>
    /\ UNCHANGED <<status, aside>>

\* s.external.GetTickers(pairsToFetch) is invoked: the request leaves
Call(p) ==
    /\ Quiet
    /\ pc[p] = "call"
    /\ calls' = [calls EXCEPT ![p] = @ + 1]
    /\ batch' = [batch EXCEPT ![p] = pairsToFetch[p]]
    /\ pc' = [pc EXCEPT ![p] = "wait"]
    /\ UNCHANGED <<store, now, pairsStr, pairs, idx, result, pairsToFetch, ltps, err,
                   probeLog, writes, before>>
    /\ UNCHANGED <<status, aside>>
\* a return of the fetch that keeps the cache hits as the result when it failed
ReceiveKeepHits(p, o) ==
    /\ Quiet
    /\ pc[p] = "wait"
    /\ IF o.err # ""
       THEN /\ err' = [err EXCEPT ![p] =
                          <<"failed to fetch from external service", o.err>>]
            /\ pc' = [pc EXCEPT ![p] = "done"]
            /\ UNCHANGED <<ltps, result>>
       ELSE /\ ltps' = [ltps EXCEPT ![p] =
                          [i \in 1..Len(o.ltps) |->
                              LTP(o.ltps[i].Pair, o.ltps[i].Amount, now)]]
            /\ pc' = [pc EXCEPT ![p] = IF Len(o.ltps) > 0 THEN "store" ELSE "sort"]
            /\ UNCHANGED <<err, result>>
    /\ UNCHANGED <<store, now, pairsStr, pairs, idx, pairsToFetch, calls, batch,
                   probeLog, writes, before>>
    /\ UNCHANGED <<status, aside>>

\* GetTickers returns o: the error return, or on to the loop that caches
Receive(p, o) ==
    /\ Quiet
    /\ pc[p] = "wait"
    /\ IF o.err # ""
       THEN /\ err' = [err EXCEPT ![p] =
                          <<"failed to fetch from external service", o.err>>]
            /\ result' = [result EXCEPT ![p] = <<>>]
            /\ pc' = [pc EXCEPT ![p] = "done"]
            /\ UNCHANGED ltps
       ELSE /\ ltps' = [ltps EXCEPT ![p] =
                          [i \in 1..Len(o.ltps) |->
                              LTP(o.ltps[i].Pair, o.ltps[i].Amount, now)]]
            /\ pc' = [pc EXCEPT ![p] = IF Len(o.ltps) > 0 THEN "store" ELSE "sort"]
            /\ UNCHANGED <<err, result>>
    /\ UNCHANGED <<store, now, pairsStr, pairs, idx, pairsToFetch, calls, batch,
                   probeLog, writes, before>>
    /\ UNCHANGED <<status, aside>>

Respond(p) ==
    /\ pc[p] = "wait"
    /\ \E bo \in Outcomes : bo[1] = pairsToFetch[p] /\ Receive(p, bo[2])

\* one iteration of the loop "cache the fetched LTPs"
Cache(p) ==
    /\ Quiet
    /\ pc[p] = "store"
    /\ LET ltp  == ltps[p][idx[p]]
           more == idx[p] < Len(ltps[p])
       IN  /\ store' = SetLTP(ltp.Pair, ltp)
           /\ result' = [result EXCEPT ![p] = Append(@, ltp)]
           /\ writes' = [writes EXCEPT ![p] =
                            Append(@, [pair |-> ltp.Pair, quote |-> Quote(ltp),
                                       at |-> now])]
           /\ idx' = [idx EXCEPT ![p] = IF more THEN @ + 1 ELSE 1]
           /\ pc' = [pc EXCEPT ![p] = IF more THEN "store" ELSE "sort"]
    /\ UNCHANGED <<now, pairsStr, pairs, pairsToFetch, ltps, err, calls, batch,
                   probeLog, before>>
    /\ UNCHANGED <<status, aside>>

\* sort.Slice and the successful return; at "done" the caller has the values
Sort(p) ==
    /\ Quiet
    /\ pc[p] = "sort"
    /\ \E sorted \in SortSlice(result[p]) :
          result' = [result EXCEPT ![p] = sorted]
    /\ pc' = [pc EXCEPT ![p] = "done"]
    /\ UNCHANGED <<store, now, pairsStr, pairs, idx, pairsToFetch, ltps, err, calls,
                   batch, probeLog, writes, before>>
    /\ UNCHANGED <<status, aside>>

\* Handler.GetLTP has the return values of GetLTPs and answers: with
\* http.StatusBadRequest if err != nil, else with http.StatusOK; the request
\* ends.  Of the history only what a later request is compared with is kept:
\* the quotes and the writes.
Return(p) ==
    /\ pc[p] = "done"
    /\ pc' = [pc EXCEPT ![p] = "returned"]
    /\ pairsStr' = [pairsStr EXCEPT ![p] = EmptyStr]
    /\ pairs' = [pairs EXCEPT ![p] = <<>>]
    /\ result' = [result EXCEPT ![p] = [i \in 1..Len(@) |-> LTP(@[i].Pair, @[i].Amount, 0)]]
    /\ pairsToFetch' = [pairsToFetch EXCEPT ![p] = <<>>]
    /\ ltps' = [ltps EXCEPT ![p] = <<>>]
    /\ err' = [err EXCEPT ![p] = <<>>]
    /\ calls' = [calls EXCEPT ![p] = 0]
    /\ batch' = [batch EXCEPT ![p] = <<>>]
    /\ probeLog' = [probeLog EXCEPT ![p] = <<>>]
    /\ before' = [before EXCEPT ![p] = <<>>]
    /\ status' = [status EXCEPT ![p] = IF err[p] # <<>> THEN StatusBadRequest
                                       ELSE StatusOK]
    /\ UNCHANGED <<store, now, idx, writes>>
    /\ UNCHANGED aside

Next ==
    \/ Tick
    \/ \E p \in Procs : Start(p)
    \/ \E p \in Procs : Probe(p)
    \/ \E p \in Procs : Call(p)
    \/ \E p \in Procs : Respond(p)
    \/ \E p \in Procs : Cache(p)
    \/ \E p \in Procs : Sort(p)
    \/ \E p \in Procs : Return(p)

Spec == Init /\ [][Next]_vars

-----------------------------------------------------------------------------
(* adapters/cache: the methods of InMemoryCache called from concurrent      *)
(* goroutines.  Each method takes c.mu, runs its body and releases c.mu on  *)
(* return (defer).  sync.RWMutex: RLock waits while a writer holds the      *)
(* mutex or has announced itself; Lock announces itself once no other       *)
(* writer holds or has announced, then waits for the readers to leave.      *)

\* the calls a goroutine makes
CacheOps ==
    {[op |-> "GetLTP", pair |-> BTCUSD, amount |-> 0],
     [op |-> "SetLTP", pair |-> BTCUSD, amount |-> 1],
     [op |-> "SetLTP", pair |-> BTCEUR, amount |-> 2],
     [op |-> "Clear", pair |-> <<>>, amount |-> 0]}

\* the goroutine is between taking c.mu and releasing it
Inside(g) == gpc[g] \in {"in", "unlock"}

\* the goroutine is in SetLTP or Clear
Writing(g) == gop[g].op \in {"SetLTP", "Clear"}

\* a goroutine calls a method of the cache
CacheCall(g) ==
    /\ gpc[g] = "idle"
    /\ \E o \in CacheOps : gop' = [gop EXCEPT ![g] = o]
    /\ gobs' = [gobs EXCEPT ![g] = <<>>]
    /\ gpc' = [gpc EXCEPT ![g] = "lock"]
    /\ UNCHANGED <<mu, store, now, requestVars, parseVars, clientVars,
                   refVars>>

\* c.mu.RLock() returns
RLock(g) ==
    /\ gpc[g] = "lock" /\ gop[g].op = "GetLTP"
    /\ ~mu.writer /\ ~mu.pending
    /\ mu' = [mu EXCEPT !.readers = @ + 1]
    /\ gpc' = [gpc EXCEPT ![g] = "in"]
    /\ UNCHANGED <<gop, gobs, store, now, requestVars, parseVars, clientVars,
                   refVars>>

\* c.mu.Lock(): the writer has the writers' turn and announces itself
LockAnnounce(g) ==
    /\ gpc[g] = "lock" /\ Writing(g)
    /\ ~mu.writer /\ ~mu.pending
    /\ mu' = [mu EXCEPT !.pending = TRUE]
    /\ gpc' = [gpc EXCEPT ![g] = "wait"]
    /\ UNCHANGED <<gop, gobs, store, now, requestVars, parseVars, clientVars,
                   refVars>>

\* a Lock that returns while readers hold the mutex
LockNoWait(g) ==
    /\ gpc[g] = "wait"
    /\ mu' = [mu EXCEPT !.pending = FALSE, !.writer = TRUE]
    /\ gpc' = [gpc EXCEPT ![g] = "in"]
    /\ UNCHANGED <<gop, gobs, store, now, requestVars, parseVars, clientVars,
                   refVars>>

\* c.mu.Lock() returns: the readers have left
Lock(g) ==
    /\ gpc[g] = "wait"
    /\ mu.readers = 0
    /\ mu' = [mu EXCEPT !.pending = FALSE, !.writer = TRUE]
    /\ gpc' = [gpc EXCEPT ![g] = "in"]
    /\ UNCHANGED <<gop, gobs, store, now, requestVars, parseVars, clientVars,
                   refVars>>

\* what a read of the map returns for the pair.  A read that runs while a
\* writer is inside is a data race: it returns what GetLTP returns or an
\* entry of which only the LTP is written
Reads(g, pair) ==
    {GetLTP(pair)}
    \cup {[cached |-> <<[LTP |-> LTP(gop[h].pair, gop[h].amount, now)]>>,
           found |-> TRUE] :
             h \in {w \in Goroutines \ {g} : Inside(w) /\ gop[w].op = "SetLTP"}}

\* the body of GetLTP
GetLTPBody(g) ==
    /\ gpc[g] = "in" /\ gop[g].op = "GetLTP"
    /\ \E r \in Reads(g, gop[g].pair) : gobs' = [gobs EXCEPT ![g] = <<r>>]
    /\ gpc' = [gpc EXCEPT ![g] = "unlock"]
    /\ UNCHANGED <<mu, gop, store, now, requestVars, parseVars, clientVars,
                   refVars>>

\* the body of SetLTP
SetLTPBody(g) ==
    /\ gpc[g] = "in" /\ gop[g].op = "SetLTP"
    /\ store' = SetLTP(gop[g].pair, LTP(gop[g].pair, gop[g].amount, now))
    /\ gpc' = [gpc EXCEPT ![g] = "unlock"]
    /\ UNCHANGED <<mu, gop, gobs, now, requestVars, parseVars, clientVars,
                   refVars>>

\* a Clear that drops only the entries that have expired, and keeps the rest
ClearBodyExpiredOnly(g) ==
    /\ gpc[g] = "in" /\ gop[g].op = "Clear"
    /\ store' = [k \in {j \in DOMAIN store : ~IsExpired(store[j])} |-> store[k]]
    /\ gpc' = [gpc EXCEPT ![g] = "unlock"]
    /\ UNCHANGED <<mu, gop, gobs, now, requestVars, parseVars, clientVars,
                   refVars>>

\* the body of Clear
ClearBody(g) ==
    /\ gpc[g] = "in" /\ gop[g].op = "Clear"
    /\ store' = <<>>
    /\ gpc' = [gpc EXCEPT ![g] = "unlock"]
    /\ UNCHANGED <<mu, gop, gobs, now, requestVars, parseVars, clientVars,
                   refVars>>

\* a GetLTP that returns without c.mu.RUnlock()
RUnlockForgotten(g) ==
    /\ gpc[g] = "unlock" /\ gop[g].op = "GetLTP"
    /\ gpc' = [gpc EXCEPT ![g] = "idle"]
    /\ UNCHANGED <<mu, gop, gobs, store, now, requestVars, parseVars, clientVars,
                   refVars>>

\* the deferred c.mu.RUnlock()
RUnlock(g) ==
    /\ gpc[g] = "unlock" /\ gop[g].op = "GetLTP"
    /\ mu' = [mu EXCEPT !.readers = @ - 1]
    /\ gpc' = [gpc EXCEPT ![g] = "idle"]
    /\ UNCHANGED <<gop, gobs, store, now, requestVars, parseVars, clientVars,
                   refVars>>

\* the deferred c.mu.Unlock()
Unlock(g) ==
    /\ gpc[g] = "unlock" /\ Writing(g)
    /\ mu' = [mu EXCEPT !.writer = FALSE]
    /\ gpc' = [gpc EXCEPT ![g] = "idle"]
    /\ UNCHANGED <<gop, gobs, store, now, requestVars, parseVars, clientVars,
                   refVars>>

CacheNext ==
    \E g \in Goroutines :
        \/ CacheCall(g)
        \/ RLock(g)
        \/ LockAnnounce(g)
        \/ Lock(g)
        \/ GetLTPBody(g)
        \/ SetLTPBody(g)
        \/ ClearBody(g)
        \/ RUnlock(g)
        \/ Unlock(g)

CacheSpec == Init /\ [][CacheNext]_vars

-----------------------------------------------------------------------------
(* The runs in which every goroutine that can take a step takes one.  The   *)
(* cache is either used by the requests, one method at a time, or called    *)
(* from concurrent goroutines.  The clock stands still: the time decides    *)
(* only whether a lookup is a hit or a miss, and the requests have both.    *)

\* an http.Client without Timeout: the GET never returns on its own
TimesOutNever(p) ==
    /\ pc[p] = "wait"
    /\ FALSE
    /\ UNCHANGED vars

\* k.httpClient.Get returns the error of the Timeout of NewKrakenClient: the
\* provider has not answered within 10 s
TimesOut(p) == Receive(p, Failed("failed to call Kraken API", <<>>))

\* the steps the goroutine of the request takes by itself
Proceeds(p) ==
    \/ Probe(p)
    \/ Call(p)
    \/ TimesOut(p)
    \/ Cache(p)
    \/ Sort(p)
    \/ Return(p)

\* the steps a goroutine in a method of the cache takes once it may
Runs(g) ==
    \/ Lock(g)
    \/ GetLTPBody(g)
    \/ SetLTPBody(g)
    \/ ClearBody(g)
    \/ RUnlock(g)
    \/ Unlock(g)

\* the steps in which the mutex admits the goroutine
Admits(g) == RLock(g) \/ LockAnnounce(g)

LiveNext ==
    \/ LocksAtRest /\ \E p \in Procs : Start(p) \/ Respond(p) \/ Proceeds(p)
    \/ pc = [p \in Procs |-> "idle"] /\ CacheNext

\* The scheduler runs every runnable goroutine, and the GET ends with the
\* timeout if with nothing else (the provider owes no answer).  sync.RWMutex
\* admits every caller that keeps asking: Unlock wakes the readers that wait
\* before the next writer, and writers queue on a sync.Mutex.
Fairness ==
    /\ \A p \in Procs : WF_vars(Proceeds(p))
    /\ \A g \in Goroutines : WF_vars(Runs(g)) /\ SF_vars(Admits(g))

LiveSpec == Init /\ [][LiveNext]_vars /\ Fairness

-----------------------------------------------------------------------------
(* application/service: calls of GetLTPs from concurrent requests.  The     *)
(* HTTP server runs every request in a goroutine of its own on the one      *)
(* LTPService, so the steps of the calls interleave; a method of the cache  *)
(* is one step, the mutex letting one writer in at a time.                  *)

\* what the concurrent requests ask for
ConcSpecs == {<<TokUSD>>, <<TokCHF>>, <<TokUSD, TokEUR>>}

\* a request begins, whatever the others are doing
StartAny(p) == \E s \in ConcSpecs : Enter(p, s)

ConcNext ==
    \/ Tick
    \/ \E p \in Procs : StartAny(p)
    \/ \E p \in Procs : Probe(p)
    \/ \E p \in Procs : Call(p)
    \/ \E p \in Procs : Respond(p)
    \/ \E p \in Procs : Cache(p)
    \/ \E p \in Procs : Sort(p)
    \/ \E p \in Procs : Return(p)

ConcSpec == Init /\ [][ConcNext]_vars

-----------------------------------------------------------------------------
(* The service and the cache at the grain of the pointers and of the mutex. *)
(* c.store maps a pair to a *CachedLTP: slot maps it to an address of heap. *)
(* A request is a goroutine; each of its calls of GetLTP and SetLTP takes   *)
(* c.mu, runs its body and releases c.mu, and GetLTPs reads cached.LTP      *)
(* through the pointer after GetLTP has returned.  One request is followed  *)
(* at this grain; what the other requests and any other user of the         *)
(* Repository do to the cache is the calls of SetLTP and Clear the other    *)
(* goroutines make at will.  store stays the map from pairs to the values   *)
(* the pointers lead to.                                                    *)

\* what the requests ask for
RefSpecs == {<<TokUSD>>}

\* the calls the other goroutines make: the writes, on the pair of the request
RefOps == {o \in CacheOps : o.op # "GetLTP" /\ o.pair # BTCEUR}

\* the request that is followed
Followed == {1}

\* the returns of GetTickers the requests get: the quotes at the price 2, or
\* the error of the timeout
RefOutcomes ==
    {bo \in Outcomes :
        IF bo[2].err = ""
        THEN \A i \in 1..Len(bo[2].ltps) : bo[2].ltps[i].Amount = 2
        ELSE bo[2] = Failed("failed to call Kraken API", <<>>)}

\* the goroutines that call the cache at will
Others == Goroutines \ Followed

\* the values of h that the map s or a pointer of pt still leads to: what the
\* garbage collector keeps
Collect(h, s, pt) ==
    LET mapped == {s[k] : k \in DOMAIN s}
        handed == {j \in DOMAIN h : \E g \in Goroutines : pt[g] = <<j>>}
    IN  [i \in DOMAIN h \cap (mapped \cup handed) |-> h[i]]

\* the address of a new value
NewAddress == CHOOSE i \in 1..(Cardinality(DOMAIN heap) + 1) : i \notin DOMAIN heap

\* the LTP the goroutine passes to SetLTP
Passed(g) ==
    IF g \in Followed THEN ltps[g][idx[g]]
    ELSE LTP(gop[g].pair, gop[g].amount, now)

RefStart(p) == \E s \in RefSpecs : Enter(p, s)

\* s.repository.GetLTP(pair) is called
LookupCall(p) ==
    /\ Quiet
    /\ pc[p] = "probe" /\ gpc[p] = "idle" /\ gop[p].op # "GetLTP"
    /\ gop' = [gop EXCEPT ![p] = [op |-> "GetLTP", pair |-> pairs[p][idx[p]],
                                  amount |-> 0]]
    /\ gobs' = [gobs EXCEPT ![p] = <<>>]
    /\ gpc' = [gpc EXCEPT ![p] = "lock"]
    /\ UNCHANGED <<mu, serviceVars, parseVars, clientVars, refVars>>

\* a GetLTP that deletes the entry it finds expired
GetLTPRefEvicts(g) ==
    /\ gpc[g] = "in" /\ gop[g].op = "GetLTP"
    /\ LET k     == gop[g].pair
           found == k \in DOMAIN slot /\ ~IsExpired(heap[slot[k]])
           evict == k \in DOMAIN slot /\ IsExpired(heap[slot[k]])
       IN  /\ ptr' = [ptr EXCEPT ![g] = IF found THEN <<slot[k]>> ELSE <<>>]
           /\ gobs' = [gobs EXCEPT ![g] =
                  <<[cached |-> IF found THEN <<heap[slot[k]]>> ELSE <<>>,
                     found |-> found]>>]
           /\ slot' = IF evict THEN [j \in DOMAIN slot \ {k} |-> slot[j]] ELSE slot
           /\ store' = IF evict THEN [j \in DOMAIN store \ {k} |-> store[j]]
                       ELSE store
           /\ heap' = Collect(heap, slot', ptr')
    /\ gpc' = [gpc EXCEPT ![g] = "unlock"]
    /\ UNCHANGED <<mu, gop, now, requestVars, parseVars, clientVars>>

\* the body of GetLTP: the pointer in the map, nil if there is none or the
\* value it leads to has expired
GetLTPRef(g) ==
    /\ gpc[g] = "in" /\ gop[g].op = "GetLTP"
    /\ LET k     == gop[g].pair
           found == k \in DOMAIN slot /\ ~IsExpired(heap[slot[k]])
       IN  /\ ptr' = [ptr EXCEPT ![g] = IF found THEN <<slot[k]>> ELSE <<>>]
           /\ gobs' = [gobs EXCEPT ![g] =
                  <<[cached |-> IF found THEN <<heap[slot[k]]>> ELSE <<>>,
                     found |-> found]>>]
           /\ heap' = Collect(heap, slot, ptr')
    /\ gpc' = [gpc EXCEPT ![g] = "unlock"]
    /\ UNCHANGED <<mu, gop, slot, store, now, requestVars, parseVars, clientVars>>

\* the rest of the iteration of "check cache first": cached.LTP is read
\* through the pointer GetLTP returned
LookupUse(p) ==
    /\ Quiet
    /\ pc[p] = "probe" /\ gpc[p] = "idle" /\ gop[p].op = "GetLTP"
    /\ LET pair == pairs[p][idx[p]]
           hit  == gobs[p][1].found /\ ptr[p] # <<>>
           more == idx[p] < Len(pairs[p])
           miss == IF hit THEN pairsToFetch[p] ELSE Append(pairsToFetch[p], pair)
       IN  /\ result' = [result EXCEPT ![p] =
                 IF hit THEN Append(@, heap[ptr[p][1]].LTP) ELSE @]
           /\ pairsToFetch' = [pairsToFetch EXCEPT ![p] = miss]
           /\ probeLog' = [probeLog EXCEPT ![p] =
                 Append(@, [pair |-> pair, found |-> gobs[p][1].found,
                            age |-> IF pair \in DOMAIN store
                                    THEN now - store[pair].Timestamp ELSE 0 - 1])]
           /\ idx' = [idx EXCEPT ![p] = IF more THEN @ + 1 ELSE 1]
           /\ pc' = [pc EXCEPT ![p] = IF more THEN "probe"
                                      ELSE IF Len(miss) > 0 THEN "call" ELSE "sort"]
    /\ gop' = [gop EXCEPT ![p] = NoOp]
    /\ gobs' = [gobs EXCEPT ![p] = <<>>]
    /\ ptr' = [ptr EXCEPT ![p] = <<>>]
    /\ heap' = Collect(heap, slot, ptr')
    /\ UNCHANGED <<store, now, pairsStr, pairs, ltps, err, calls, batch, writes,
                   before, status>>
    /\ UNCHANGED <<mu, gpc, slot, parseVars, clientVars>>

\* GetTickers returns to the request
RefRespond(p) ==
    /\ pc[p] = "wait"
    /\ \E bo \in RefOutcomes : bo[1] = pairsToFetch[p] /\ Receive(p, bo[2])

\* s.repository.SetLTP(ltp.Pair, ltp) is called
StoreCall(p) ==
    /\ Quiet
    /\ pc[p] = "store" /\ gpc[p] = "idle" /\ gop[p].op # "SetLTP"
    /\ gop' = [gop EXCEPT ![p] = [op |-> "SetLTP", pair |-> ltps[p][idx[p]].Pair,
                                  amount |-> ltps[p][idx[p]].Amount]]
    /\ gpc' = [gpc EXCEPT ![p] = "lock"]
    /\ UNCHANGED <<mu, gobs, serviceVars, parseVars, clientVars, refVars>>

\* a SetLTP that writes the new value over the one the map leads to
SetLTPRefInPlace(g) ==
    /\ gpc[g] = "in" /\ gop[g].op = "SetLTP"
    /\ LET k == gop[g].pair
       IN  /\ slot' = IF k \in DOMAIN slot THEN slot
                      ELSE [j \in DOMAIN slot \cup {k} |->
                               IF j = k THEN NewAddress ELSE slot[j]]
           /\ heap' = Collect([i \in DOMAIN heap \cup {slot'[k]} |->
                                  IF i = slot'[k] THEN NewCachedLTP(Passed(g))
                                  ELSE heap[i]], slot', ptr)
           /\ store' = SetLTP(k, Passed(g))
    /\ gpc' = [gpc EXCEPT ![g] = "unlock"]
    /\ UNCHANGED <<mu, gop, gobs, ptr, now, requestVars, parseVars, clientVars>>

\* the body of SetLTP: c.store[pair.Value()] = domain.NewCachedLTP(ltp), the
\* pointer to a new value
SetLTPRef(g) ==
    /\ gpc[g] = "in" /\ gop[g].op = "SetLTP"
    /\ LET k == gop[g].pair
       IN  /\ slot' = [j \in DOMAIN slot \cup {k} |->
                          IF j = k THEN NewAddress ELSE slot[j]]
           /\ heap' = Collect([i \in DOMAIN heap \cup {NewAddress} |->
                                  IF i = NewAddress THEN NewCachedLTP(Passed(g))
                                  ELSE heap[i]], slot', ptr)
           /\ store' = SetLTP(k, Passed(g))
    /\ gpc' = [gpc EXCEPT ![g] = "unlock"]
    /\ UNCHANGED <<mu, gop, gobs, ptr, now, requestVars, parseVars, clientVars>>

\* the rest of the iteration of "cache the fetched LTPs"
StoreUse(p) ==
    /\ Quiet
    /\ pc[p] = "store" /\ gpc[p] = "idle" /\ gop[p].op = "SetLTP"
    /\ LET ltp  == ltps[p][idx[p]]
           more == idx[p] < Len(ltps[p])
       IN  /\ result' = [result EXCEPT ![p] = Append(@, ltp)]
           /\ writes' = [writes EXCEPT ![p] =
                            Append(@, [pair |-> ltp.Pair, quote |-> Quote(ltp),
                                       at |-> now])]
           /\ idx' = [idx EXCEPT ![p] = IF more THEN @ + 1 ELSE 1]
           /\ pc' = [pc EXCEPT ![p] = IF more THEN "store" ELSE "sort"]
    /\ gop' = [gop EXCEPT ![p] = NoOp]
    /\ UNCHANGED <<store, now, pairsStr, pairs, pairsToFetch, ltps, err, calls,
                   batch, probeLog, before, status>>
    /\ UNCHANGED <<mu, gpc, gobs, parseVars, clientVars, refVars>>

\* the body of Clear: c.store = make(map[string]*domain.CachedLTP)
ClearRef(g) ==
    /\ gpc[g] = "in" /\ gop[g].op = "Clear"
    /\ slot' = <<>>
    /\ store' = <<>>
    /\ heap' = Collect(heap, slot', ptr)
    /\ gpc' = [gpc EXCEPT ![g] = "unlock"]
    /\ UNCHANGED <<mu, gop, gobs, ptr, now, requestVars, parseVars, clientVars>>

\* the other goroutine calls a method and lets go of the pointer it had
OtherCall(g) ==
    /\ gpc[g] = "idle"
    /\ \E o \in RefOps : gop' = [gop EXCEPT ![g] = o]
    /\ gobs' = [gobs EXCEPT ![g] = <<>>]
    /\ ptr' = [ptr EXCEPT ![g] = <<>>]
    /\ heap' = Collect(heap, slot, ptr')
    /\ gpc' = [gpc EXCEPT ![g] = "lock"]
    /\ UNCHANGED <<mu, slot, serviceVars, parseVars, clientVars>>

RefNext ==
    \/ Tick
    \/ \E p \in Followed : RefStart(p)
    \/ \E p \in Followed : LookupCall(p)
    \/ \E p \in Followed : LookupUse(p)
    \/ \E p \in Followed : Call(p)
    \/ \E p \in Followed : RefRespond(p)
    \/ \E p \in Followed : StoreCall(p)
    \/ \E p \in Followed : StoreUse(p)
    \/ \E p \in Followed : Sort(p)
    \/ \E p \in Followed : Return(p)
    \/ \E g \in Others : OtherCall(g)
    \/ \E g \in Goroutines : RLock(g)
    \/ \E g \in Goroutines : LockAnnounce(g)
    \/ \E g \in Goroutines : Lock(g)
    \/ \E g \in Goroutines : GetLTPRef(g)
    \/ \E g \in Goroutines : SetLTPRef(g)
    \/ \E g \in Goroutines : ClearRef(g)
    \/ \E g \in Goroutines : RUnlock(g)
    \/ \E g \in Goroutines : Unlock(g)

RefSpec == Init /\ [][RefNext]_vars

-----------------------------------------------------------------------------
(* domain: ParsePairs run alone, on any string *)

\* a token of white space only
TokSpace == <<" ">>

\* the strings ParsePairs is called with: up to MaxTokens + 1 tokens
ParseInputs ==
    UNION {[1..n -> Tokens \cup {TokSpace}] : n \in 1..(MaxTokens + 1)}

ParseInit ==
    /\ RequestsAtRest
    /\ ClientAtRest
    /\ LocksAtRest
    /\ RefsAtRest
    /\ parseIn \in ParseInputs
    /\ parseOut = <<>>

\* ParsePairs(parseIn) returns
ParsePairsReturn ==
    /\ parseOut = <<>>
    /\ parseOut' = <<ParsePairs(parseIn)>>
    /\ UNCHANGED parseIn
    /\ UNCHANGED <<serviceVars, clientVars, lockVars, refVars>>

ParseNext == ParsePairsReturn

ParseSpec == ParseInit /\ [][ParseNext]_vars

-----------------------------------------------------------------------------
(* adapters/kraken: KrakenClient.GetTickers run alone, on any batch and any *)
(* answer of the provider                                                   *)

\* the arguments of GetTickers: the batches and the empty slice
ClientBatches == Batches \cup {<<>>}

\* a last-trade price below zero, which strconv.ParseFloat reads as it reads
\* any other number
NegativePrice == [C |-> << <<"-", "1">> >>]

\* what the GET can produce for GetTickers run alone: the responses above and
\* the result maps of one key whose record carries the price below zero
ClientResponses ==
    Responses
    \cup {[transport |-> "", StatusCode |-> StatusOK, readErr |-> FALSE,
           json |-> TRUE, Error |-> <<>>,
           Result |-> [k \in {key} |-> NegativePrice]] : key \in ResponseKeys}

ClientInit ==
    /\ RequestsAtRest
    /\ ParserAtRest
    /\ LocksAtRest
    /\ RefsAtRest
    /\ kpc = "call"
    /\ kpairs \in ClientBatches
    /\ kresp = <<>>
    /\ kout = <<>>
    /\ gets = 0

\* GetTickers that builds the URL and issues the GET whatever the slice holds
GetTickersBeginNoCheck ==
    /\ kpc = "call"
    /\ gets' = gets + 1
    /\ kpc' = "get"
    /\ UNCHANGED <<kpairs, kresp, kout>>
    /\ UNCHANGED <<serviceVars, parseVars, lockVars, refVars>>

\* GetTickers up to k.httpClient.Get(url): the return on an empty slice, else
\* the symbols are joined into the URL and the GET is issued
GetTickersBegin ==
    /\ kpc = "call"
    /\ IF Len(kpairs) = 0
       THEN /\ kout' = <<Failed("no pairs provided", <<>>)>>
            /\ kpc' = "done"
            /\ UNCHANGED gets
       ELSE /\ gets' = gets + 1
            /\ kpc' = "get"
            /\ UNCHANGED kout
    /\ UNCHANGED <<kpairs, kresp>>
    /\ UNCHANGED <<serviceVars, parseVars, lockVars, refVars>>

\* the GET produces resp and GetTickers runs to its return
GetTickersReply ==
    /\ kpc = "get"
    /\ \E resp \in ClientResponses :
          /\ kresp' = <<resp>>
          /\ kout' = <<GetTickers(kpairs, resp)>>
    /\ kpc' = "done"
    /\ UNCHANGED <<kpairs, gets>>
    /\ UNCHANGED <<serviceVars, parseVars, lockVars, refVars>>

ClientNext ==
    \/ GetTickersBegin
    \/ GetTickersReply

ClientSpec == ClientInit /\ [][ClientNext]_vars

-----------------------------------------------------------------------------
(* What the properties are stated with *)

\* a token is in the catalog when trimming and upper-casing it gives a pair
InCatalog(tok) == ToUpper(TrimSpace(tok)) \in validPairs

\* the specification s holds a token outside the catalog
HasBadToken(s) == s # EmptyStr /\ \E i \in 1..Len(s) : ~InCatalog(s[i])

\* the distinct pairs the specification s asks for
Asked(s) ==
    IF s = EmptyStr THEN validPairs
    ELSE {v \in validPairs : \E i \in 1..Len(s) : ToUpper(TrimSpace(s[i])) = v}

Min(S) == CHOOSE x \in S : \A y \in S : x <= y

PairsOf(seq) == [i \in 1..Len(seq) |-> seq[i].Pair]

QuotesOf(seq) == [i \in 1..Len(seq) |-> Quote(seq[i])]

Range(seq) == {seq[i] : i \in 1..Len(seq)}

\* the request p has returned nil error / the upstream error
Succeeded(p) == pc[p] = "done" /\ err[p] = <<>>

FailedUpstream(p) ==
    pc[p] = "done" /\ err[p] # <<>>
    /\ err[p][1] = "failed to fetch from external service"

\* the pairs whose lookup in the current call of p reported not-found, in order
RECURSIVE MissesOf(_)
MissesOf(log) ==
    IF log = <<>> THEN <<>>
    ELSE IF Head(log).found THEN MissesOf(Tail(log))
    ELSE <<Head(log).pair>> \o MissesOf(Tail(log))

\* the upstream call of p, if any, has been issued
PastCall(p) == pc[p] \in {"wait", "store", "sort", "done"}

-----------------------------------------------------------------------------
(* The properties *)

\* C1: a call for a valid non-empty pair specification that returns without
\* error returns one quote for each distinct pair asked for and no other, in
\* strictly ascending order of the pair strings, whatever the cache held; and
\* such a call fails only when its upstream fetch failed.
C1_OneQuotePerPairSorted ==
    \A p \in Procs :
        (pc[p] = "done" /\ pairsStr[p] # EmptyStr /\ ~HasBadToken(pairsStr[p])) =>
            /\ err[p] # <<>> => FailedUpstream(p) /\ calls[p] = 1
            /\ err[p] = <<>> =>
                  /\ Range(PairsOf(result[p])) = Asked(pairsStr[p])
                  /\ Len(result[p]) = Cardinality(Asked(pairsStr[p]))
                  /\ \A i, j \in 1..Len(result[p]) :
                        i < j => StrLess(result[p][i].Pair, result[p][j].Pair)

\* C1 witness: a successful call for two pairs given out of order, one found
\* fresh in the cache and one found expired
C1_Witness ==
    \E p \in Procs :
        /\ Succeeded(p) /\ pairsStr[p] = <<TokUSD, TokEUR>>
        /\ \E i, j \in 1..Len(probeLog[p]) :
              /\ probeLog[p][i].found
              /\ ~probeLog[p][j].found /\ probeLog[p][j].age > Minute

\* C2: a call invokes upstream at most once; once the lookups are over it has
\* invoked it exactly once if some lookup missed and not at all otherwise, and
\* the batch is exactly the missed pairs in the order they were asked for.
C2_OneBatchOfTheMisses ==
    \A p \in Procs :
        /\ calls[p] <= 1
        /\ PastCall(p) =>
              /\ calls[p] = IF MissesOf(probeLog[p]) = <<>> THEN 0 ELSE 1
              /\ batch[p] = MissesOf(probeLog[p])
              /\ [i \in 1..Len(probeLog[p]) |-> probeLog[p][i].pair] = pairs[p]

\* C2 witness: a returned call with one hit and a batch of two misses that is
\* not in sorted order
C2_Witness ==
    \E p \in Procs :
        /\ pc[p] = "done" /\ calls[p] = 1
        /\ batch[p] = <<BTCUSD, BTCCHF>>
        /\ \E i \in 1..Len(probeLog[p]) : probeLog[p][i].found

\* C3: when the upstream fetch fails the call returns no quote, even if some
\* pairs were hits, and the cache is as it was when the call began.
C3_UpstreamFailureIsTotal ==
    \A p \in Procs :
        FailedUpstream(p) =>
            /\ result[p] = <<>>
            /\ writes[p] = <<>>
            /\ store = before[p]

\* C3 witness: a call that had a cache hit and then failed on a non-empty
\* provider error list
C3_Witness ==
    \E p \in Procs :
        /\ FailedUpstream(p) /\ err[p][2] = "kraken API error"
        /\ \E i \in 1..Len(probeLog[p]) : probeLog[p][i].found

\* C4: after a call on a fresh cache that succeeded through an upstream fetch,
\* a second call for the same pairs that runs within the freshness window of
\* what the first stored returns the same quotes and does not invoke upstream.
C4_SecondCallServedFromCache ==
    \A p, q \in Procs :
        (/\ pc[q] = "returned" /\ result[q] # <<>>
         /\ Len(writes[q]) = Len(result[q])
         /\ pc[p] = "done"
         /\ ~HasBadToken(pairsStr[p])
         /\ Asked(pairsStr[p]) = Range(PairsOf(result[q]))
         /\ now - Min({writes[q][i].at : i \in 1..Len(writes[q])}) <= Minute) =>
            /\ err[p] = <<>>
            /\ calls[p] = 0
            /\ QuotesOf(result[p]) = QuotesOf(result[q])

\* C4 witness: the second call for two pairs returns exactly one minute after
\* the first call's earliest store
C4_Witness ==
    \E p, q \in Procs :
        /\ pc[q] = "returned" /\ Len(result[q]) = 2 /\ Len(writes[q]) = 2
        /\ pc[p] = "done" /\ err[p] = <<>> /\ calls[p] = 0
        /\ pairsStr[p] = <<TokEUR, TokUSD>>
        /\ QuotesOf(result[p]) = QuotesOf(result[q])
        /\ now - Min({writes[q][i].at : i \in 1..Len(writes[q])}) = Minute

\* C5: an entry older than the freshness window is reported not-found; a call
\* that meets one invokes upstream exactly once, and when it succeeds the entry
\* holds the new quote under a newer timestamp, which a lookup within the
\* window finds.
C5_ExpiredEntryIsRefetched ==
    /\ \A k \in DOMAIN store :
          now - store[k].Timestamp > Minute => ~GetLTP(k).found
    /\ \A p \in Procs : \A i \in 1..Len(probeLog[p]) :
          LET e == probeLog[p][i]
          IN  e.age > Minute =>
                /\ ~e.found
                /\ PastCall(p) => calls[p] = 1
                /\ Succeeded(p) =>
                      /\ e.pair \in DOMAIN store
                      /\ store[e.pair].Timestamp > before[p][e.pair].Timestamp
                      /\ \E j \in 1..Len(result[p]) :
                            result[p][j] = store[e.pair].LTP
                      /\ now - store[e.pair].Timestamp <= Minute =>
                            /\ GetLTP(e.pair).found
                            /\ GetLTP(e.pair).cached = <<store[e.pair]>>

\* C5 witness: a successful call has replaced an expired entry by a quote with
\* another amount, and a lookup finds it
C5_Witness ==
    \E p \in Procs : \E i \in 1..Len(probeLog[p]) :
        LET e == probeLog[p][i]
        IN  /\ Succeeded(p) /\ e.age > Minute /\ calls[p] = 1
            /\ GetLTP(e.pair).found
            /\ store[e.pair].LTP.Amount # before[p][e.pair].LTP.Amount

\* C6: a specification with a token outside the catalog fails with the
\* invalid-pair error; upstream is not invoked and the cache is neither read
\* nor written.
C6_InvalidPairTouchesNothing ==
    \A p \in Procs :
        HasBadToken(pairsStr[p]) =>
            /\ pc[p] = "done"
            /\ err[p] = <<"invalid pairs", "invalid pair">>
            /\ result[p] = <<>>
            /\ calls[p] = 0 /\ batch[p] = <<>>
            /\ probeLog[p] = <<>>
            /\ writes[p] = <<>>
            /\ store = before[p]

\* C6 witness: the bad token follows a valid one whose pair is in the cache
C6_Witness ==
    \E p \in Procs :
        /\ pc[p] = "done" /\ pairsStr[p] = <<TokUSD, TokBad>>
        /\ BTCUSD \in DOMAIN store

\* C7: the empty specification is a request for the whole catalog: it never
\* fails as invalid, and when it succeeds it returns BTC/CHF, BTC/EUR, BTC/USD
\* in this order.
C7_EmptySpecIsWholeCatalog ==
    \A p \in Procs :
        (pc[p] = "done" /\ pairsStr[p] = EmptyStr) =>
            /\ err[p] # <<>> => FailedUpstream(p)
            /\ err[p] = <<>> => PairsOf(result[p]) = <<BTCCHF, BTCEUR, BTCUSD>>

\* C7 witness: a successful call with the empty specification, part from the
\* cache and part from upstream
C7_Witness ==
    \E p \in Procs :
        /\ Succeeded(p) /\ pairsStr[p] = EmptyStr
        /\ calls[p] = 1 /\ Len(batch[p]) < Len(result[p])

\* C8: no quote a call returns is older than one minute, counted from the
\* moment it was obtained from upstream to the moment the call returns.
C8_NoQuoteOlderThanAMinute ==
    \A p \in Procs :
        Succeeded(p) =>
            \A i \in 1..Len(result[p]) : now - result[p][i].obtained <= Minute

\* C9: a lookup reports not-found exactly when the pair has no entry or the
\* entry is more than 60 seconds old; otherwise it returns the entry, which
\* holds the quote of the latest store for the pair.
LatestWrite(pair) ==
    LET ps == {p \in Procs : \E i \in 1..Len(writes[p]) : writes[p][i].pair = pair}
        p  == CHOOSE x \in ps : \A y \in ps : y <= x
        is == {i \in 1..Len(writes[p]) : writes[p][i].pair = pair}
    IN  writes[p][CHOOSE i \in is : \A j \in is : j <= i]

C9_LookupFoundIffFresh ==
    /\ \A pair \in validPairs :
          LET g == GetLTP(pair)
          IN  /\ ~g.found <=>
                    (pair \notin DOMAIN store \/ now - store[pair].Timestamp > Minute)
              /\ g.found =>
                    /\ g.cached = <<store[pair]>>
                    /\ Quote(store[pair].LTP) = LatestWrite(pair).quote
              /\ ~g.found => g.cached = <<>>
    /\ \A p \in Procs : \A i \in 1..Len(probeLog[p]) :
          probeLog[p][i].found <=> probeLog[p][i].age \in 0..Minute

\* C9 witness: a lookup found an entry exactly 60 seconds old
C9_Witness ==
    \E p \in Procs : \E i \in 1..Len(probeLog[p]) :
        probeLog[p][i].found /\ probeLog[p][i].age = Minute

\* C10: a store of a quote for a pair leaves the pair's entry holding that
\* quote and the time of the store, with nothing of the entry before, and
\* leaves every other entry as it was.
C10_StoreReplacesOneEntry ==
    [][\A p \in Procs :
          (pc[p] = "store" /\ writes'[p] # writes[p]) =>
              LET ltp == ltps[p][idx[p]]
              IN  /\ DOMAIN store' = DOMAIN store \cup {ltp.Pair}
                  /\ store'[ltp.Pair] = [LTP |-> ltp, Timestamp |-> now]
                  /\ \A k \in DOMAIN store \ {ltp.Pair} : store'[k] = store[k]]_vars

\* C10 witness: an entry has been replaced by a quote with another amount,
\* beside an entry left alone that was stored some time after its quote was
\* fetched
C10_Witness ==
    \E p \in Procs : \E i \in 1..Len(writes[p]) :
        LET k == writes[p][i].pair
        IN  /\ k \in DOMAIN before[p]
            /\ store[k].LTP.Amount # before[p][k].LTP.Amount
            /\ store[k].Timestamp = writes[p][i].at
            /\ store[k].Timestamp > before[p][k].Timestamp
            /\ \E o \in DOMAIN before[p] :
                  /\ o # k /\ store[o] = before[p][o]
                  /\ store[o].Timestamp > store[o].LTP.obtained

\* C19: the answer tells the kinds of failure apart: an invalid pair is
\* answered with a client-error status (4xx), a failure of the upstream fetch
\* with a server-side status (5xx), never with the same status, and a success
\* with 200.
C19_FailureKindsHaveDistinctStatus ==
    [][\A p \in Procs :
          (pc[p] = "done" /\ pc'[p] = "returned") =>
              /\ err[p] = <<>> => status'[p] = StatusOK
              /\ (err[p] # <<>> /\ err[p][1] = "invalid pairs") =>
                    status'[p] \in 400..499
              /\ FailedUpstream(p) => status'[p] \in 500..599]_vars

\* the quote the call of p has for the pair: the cached one if the lookup
\* found it, else the fetched one
QuoteFor(p, pair) ==
    IF \E i \in 1..Len(probeLog[p]) :
           probeLog[p][i].pair = pair /\ probeLog[p][i].found
    THEN Quote(before[p][pair].LTP)
    ELSE Quote(ltps[p][CHOOSE i \in 1..Len(ltps[p]) : ltps[p][i].Pair = pair])

\* the quotes of the set Q, one per pair, in ascending order of the pairs
Ascending(Q) ==
    CHOOSE t \in [1..Cardinality(Q) -> Q] :
        \A i, j \in 1..Cardinality(Q) : i < j => StrLess(t[i].Pair, t[j].Pair)

\* C24: what a successful call returns is the quotes of the pairs asked for
\* in ascending order of the pairs, whatever the order and repetition of the
\* tokens, whichever pairs were hits and whichever the order of the fetched
\* quotes; two calls with the same set of quotes return the same sequence.
C24_ResultDependsOnPairsAndQuotes ==
    \A p \in Procs :
        Succeeded(p) =>
            /\ QuotesOf(result[p]) =
                  Ascending({QuoteFor(p, pair) : pair \in Asked(pairsStr[p])})
            /\ \A q \in Procs :
                  (pc[q] = "returned"
                   /\ Range(QuotesOf(result[q])) = Range(QuotesOf(result[p]))) =>
                      QuotesOf(result[q]) = QuotesOf(result[p])

\* C24 witness: the first call fetched BTC/USD and BTC/EUR in this order; the
\* second names them the other way round, finds one of the two and fetches
\* the other, and returns the same sequence
C24_Witness ==
    \E p, q \in Procs :
        /\ pc[q] = "returned" /\ Len(writes[q]) = 2
        /\ writes[q][1].pair = BTCUSD /\ writes[q][2].pair = BTCEUR
        /\ Succeeded(p) /\ pairsStr[p] = <<TokEUR, TokUSD>>
        /\ Len(batch[p]) = 1
        /\ QuotesOf(result[p]) = QuotesOf(result[q])
        /\ Len(result[p]) = 2

\* C25: no step of a call removes an entry of the cache; a step that adds or
\* changes one is a store of the call, for a pair of its batch; and a call
\* that returns having found every pair has left the cache, quotes and
\* timestamps, as it was when it began.
C25_OnlyAddsOrOverwrites ==
    [][/\ DOMAIN store \subseteq DOMAIN store'
       /\ \A k \in DOMAIN store' :
              (k \notin DOMAIN store \/ store'[k] # store[k]) =>
                  \E p \in Procs :
                      /\ pc[p] = "store" /\ calls[p] = 1
                      /\ k = ltps[p][idx[p]].Pair
                      /\ k \in Range(batch[p])
       /\ \A p \in Procs :
              (pc'[p] = "done" /\ err'[p] = <<>> /\ calls'[p] = 0) =>
                  /\ store' = before'[p]
                  /\ writes'[p] = <<>>
      ]_vars

\* C25 witness: the cache holds two entries a call stored, and a later call
\* for both has returned having found both
C25_Witness ==
    \E p, q \in Procs :
        /\ pc[q] = "returned" /\ Len(writes[q]) = 2
        /\ Succeeded(p) /\ calls[p] = 0 /\ Len(probeLog[p]) = 2
        /\ store = before[p] /\ Cardinality(DOMAIN store) = 2
        /\ now > 0

\* C26: when a call invokes upstream it has looked up every pair asked for
\* and looks up none afterwards; until upstream has returned without error
\* the call has written nothing and the cache is as it was when the call
\* began; and every write is of a call whose single upstream call returned
\* without error.
C26_ProbesThenCallThenWrites ==
    \A p \in Procs :
        /\ pc[p] \in {"probe", "call"} => calls[p] = 0
        /\ pc[p] \in {"probe", "call", "wait"} =>
              /\ writes[p] = <<>>
              /\ store = before[p]
        /\ calls[p] > 0 =>
              /\ pc[p] \in {"wait", "store", "sort", "done"}
              /\ Len(probeLog[p]) = Len(pairs[p])
              /\ \A i \in 1..Len(pairs[p]) : probeLog[p][i].pair = pairs[p][i]
        /\ (pc[p] = "done" /\ err[p] # <<>>) =>
              /\ writes[p] = <<>>
              /\ store = before[p]
        /\ (pc[p] # "returned" /\ writes[p] # <<>>) =>
              /\ calls[p] = 1 /\ err[p] = <<>>
              /\ pc[p] \in {"store", "sort", "done"}
              /\ \A i \in 1..Len(writes[p]) :
                    /\ writes[p][i].pair \in Range(batch[p])
                    /\ writes[p][i].at >= ltps[p][i].obtained

\* C26 witness: a call that has looked up two pairs, found one, fetched the
\* other and is past its write
C26_Witness ==
    \E p \in Procs :
        /\ pc[p] = "sort" /\ calls[p] = 1
        /\ Len(probeLog[p]) = 2 /\ Len(batch[p]) = 1 /\ Len(writes[p]) = 1
        /\ store # before[p]

-----------------------------------------------------------------------------
(* The properties of concurrent calls of GetLTPs *)

\* C29: the entry of a pair never holds a quote obtained before a quote that
\* a call still under way has stored for the pair: a call whose fetch
\* returned earlier does not overwrite what a call whose fetch returned
\* later has stored.
C29_LaterFetchNotOverwritten ==
    \A p \in Procs :
        pc[p] \in {"store", "sort", "done"} =>
            \A i \in 1..Len(writes[p]) :
                store[writes[p][i].pair].LTP.obtained >= ltps[p][i].obtained

\* C30: every key of the cache is a pair of the catalog and is the pair of
\* the quote stored under it, so the cache holds three entries at most,
\* however the steps of the calls interleave.
C30_KeysAreThePairsOfTheQuotes ==
    /\ DOMAIN store \subseteq validPairs
    /\ \A k \in DOMAIN store : store[k].LTP.Pair = k
    /\ Cardinality(DOMAIN store) <= 3
    /\ \A p \in Procs : \A i \in 1..Len(ltps[p]) : ltps[p][i].Pair \in validPairs

\* C30 witness: the cache holds the three pairs, stored by two calls that
\* are under way together
C30_Witness ==
    /\ DOMAIN store = validPairs
    /\ \E p, q \in Procs :
          /\ pc[p] = "sort" /\ Len(writes[p]) = 2
          /\ pc[q] = "sort" /\ Len(writes[q]) = 1

-----------------------------------------------------------------------------
(* The property of the cache under concurrent calls *)

\* C11: under any interleaving of GetLTP, SetLTP and Clear on one cache, a
\* goroutine in SetLTP or Clear is never between Lock and Unlock while another
\* goroutine is inside the store, the mutex counts exactly the goroutines
\* inside, and every entry a GetLTP returns has its LTP with the timestamp
\* stored with it.  (That several GetLTP are inside together is the witness.)
C11_WritersAloneAndEntriesWhole ==
    /\ \A g, h \in Goroutines :
          (g # h /\ Inside(g) /\ Writing(g)) => ~Inside(h)
    /\ mu.readers = Cardinality({g \in Goroutines : Inside(g) /\ ~Writing(g)})
    /\ mu.writer <=> \E g \in Goroutines : Inside(g) /\ Writing(g)
    /\ \A g \in Goroutines :
          (gobs[g] # <<>> /\ gobs[g][1].found) =>
              /\ DOMAIN gobs[g][1].cached[1] = {"LTP", "Timestamp"}
              /\ gobs[g][1].cached[1].LTP.Pair = gop[g].pair

\* C11 witness: two GetLTP are inside the store together, one of them having
\* read a whole entry, while a writer that has called Lock waits for them
C11_Witness ==
    \E g, h, w \in Goroutines :
        /\ g # h
        /\ gpc[g] = "in" /\ gop[g].op = "GetLTP"
        /\ gpc[h] = "unlock" /\ gop[h].op = "GetLTP"
        /\ gobs[h] # <<>> /\ gobs[h][1].found
        /\ gpc[w] = "wait" /\ gop[w].op = "SetLTP"

\* the step is the body of the method the goroutine g has called
Body(g) == gpc[g] = "in" /\ gpc'[g] = "unlock"

\* the step is the body of a Clear
Clears == \E g \in Goroutines : Body(g) /\ gop[g].op = "Clear"

\* the step is the body of a SetLTP for the pair
Stores(pair) ==
    \E g \in Goroutines : Body(g) /\ gop[g].op = "SetLTP" /\ gop[g].pair = pair

\* C22: the step in which Clear runs leaves every pair not found; a pair not
\* found becomes found only by a SetLTP for that pair, which leaves its own
\* quote in the store; an entry disappears only by a Clear; and a GetLTP is
\* told found exactly when the store holds the pair.
C22_ClearDropsAllUntilStored ==
    [][/\ Clears => \A pair \in validPairs : ~GetLTP(pair)'.found
       /\ \A pair \in validPairs :
              /\ (~GetLTP(pair).found /\ GetLTP(pair)'.found) => Stores(pair)
              /\ (GetLTP(pair).found /\ ~GetLTP(pair)'.found) => Clears
       /\ \A g \in Goroutines :
              /\ (Body(g) /\ gop[g].op = "SetLTP") =>
                     /\ GetLTP(gop[g].pair)'.found
                     /\ store'[gop[g].pair].LTP.Amount = gop[g].amount
              /\ (Body(g) /\ gop[g].op = "GetLTP") =>
                     gobs'[g][1] = GetLTP(gop[g].pair)
      ]_vars

\* C22 witness: a Clear has returned, a GetLTP after it was told not found,
\* and the entry of a SetLTP that ran since is the only one in the store
C22_Witness ==
    \E c, h, r \in Goroutines :
        /\ gpc[c] = "idle" /\ gop[c].op = "Clear"
        /\ gpc[r] = "idle" /\ gop[r].op = "GetLTP"
        /\ gobs[r] # <<>> /\ ~gobs[r][1].found
        /\ gpc[h] = "unlock" /\ gop[h].op = "SetLTP"
        /\ DOMAIN store = {gop[h].pair}

\* C23: every call of GetLTPs that has begun returns, with a result or an
\* error, and every call of a method of the cache returns.
C23_EveryCallReturns ==
    /\ \A p \in Procs : (pc[p] \notin {"idle", "returned"}) ~> (pc[p] = "returned")
    /\ \A g \in Goroutines : (gpc[g] # "idle") ~> (gpc[g] = "idle")

\* C23 witness: the provider did not answer and the call has the error of the
\* timeout
C23_Witness ==
    \E p \in Procs :
        /\ pc[p] = "done"
        /\ err[p] = <<"failed to fetch from external service",
                      "failed to call Kraken API">>

-----------------------------------------------------------------------------
(* The properties of the cache as a map of pointers *)

\* the step is the rest of the lookup of the request p, after GetLTP returned
Uses(p) == pc[p] = "probe" /\ gpc[p] = "idle" /\ gop[p].op = "GetLTP" /\ gop'[p] = NoOp

\* C31: a value once allocated is never changed; SetLTP puts a pointer to a
\* new value in the map; the value a pointer handed out by GetLTP leads to is
\* the one it led to when GetLTP ran, whatever SetLTP and Clear ran since;
\* and the quote the request appends is the one of that value.
C31_EntriesAreNeverModified ==
    [][/\ \A i \in DOMAIN heap \cap DOMAIN heap' : heap'[i] = heap[i]
       /\ \A g \in Goroutines :
              /\ (Body(g) /\ gop[g].op = "SetLTP") =>
                     /\ slot'[gop[g].pair] \notin DOMAIN heap
                     /\ heap'[slot'[gop[g].pair]] = NewCachedLTP(Passed(g))
              /\ ptr'[g] # <<>> =>
                     /\ ptr'[g][1] \in DOMAIN heap'
                     /\ gobs'[g][1].found
                     /\ heap'[ptr'[g][1]] = gobs'[g][1].cached[1]
       /\ \A p \in Followed :
              (Uses(p) /\ gobs[p][1].found) =>
                  result'[p] = Append(result[p], gobs[p][1].cached[1].LTP)
       /\ store' = [k \in DOMAIN slot' |-> heap'[slot'[k]]]
      ]_vars

\* C31 witness: GetLTP has handed the request a pointer, the request has not
\* read through it yet, and a SetLTP has since put another value in the map
C31_Witness ==
    \E p \in Followed :
        /\ pc[p] = "probe" /\ gpc[p] = "idle" /\ ptr[p] # <<>>
        /\ BTCUSD \in DOMAIN slot /\ slot[BTCUSD] # ptr[p][1]
        /\ heap[slot[BTCUSD]] # heap[ptr[p][1]]

\* C32: the mutex is held by exactly the goroutines that are inside a method
\* of the cache; a request that is not in GetLTP or SetLTP, waiting for
\* upstream or not, neither holds the mutex nor waits for it; and whenever a
\* goroutine is in a method of the cache, one of them can take its next step.
C32_LockHeldOnlyInsideAMethod ==
    /\ mu.readers = Cardinality({g \in Goroutines : Inside(g) /\ ~Writing(g)})
    /\ mu.writer <=> \E g \in Goroutines : Inside(g) /\ Writing(g)
    /\ mu.pending <=> \E g \in Goroutines : gpc[g] = "wait"
    /\ \A p \in Followed :
          pc[p] \in {"idle", "call", "wait", "sort", "done", "returned"} =>
              gpc[p] = "idle"
    /\ \A p \in Followed :
          pc[p] = "wait" =>
              \A g \in Goroutines \ {p} :
                  gpc[g] # "idle" =>
                      \E h \in Goroutines \ {p} :
                          \/ Inside(h)
                          \/ gpc[h] = "wait" /\ mu.readers = 0
                          \/ gpc[h] = "lock" /\ ~mu.writer /\ ~mu.pending
    /\ (\E g \in Goroutines : gpc[g] # "idle") =>
          \E h \in Goroutines :
              \/ Inside(h)
              \/ gpc[h] = "wait" /\ mu.readers = 0
              \/ gpc[h] = "lock" /\ ~mu.writer /\ ~mu.pending

\* C32 witness: the request waits for upstream while one goroutine is inside
\* SetLTP and another has called Clear and waits for the mutex
C32_Witness ==
    \E p \in Followed : \E g, h \in Others :
        /\ pc[p] = "wait"
        /\ gpc[g] = "in" /\ gop[g].op = "SetLTP"
        /\ gpc[h] = "lock" /\ gop[h].op = "Clear"

\* C33: the body of GetLTP leaves the map and the values as they are, and
\* reports an expired entry not found; time passing leaves them as they are;
\* an entry changes only by a SetLTP for its pair and goes only by a Clear.
C33_LookupIsAPureRead ==
    [][/\ \A g \in Goroutines :
              (Body(g) /\ gop[g].op = "GetLTP") =>
                  /\ store' = store /\ slot' = slot
                  /\ \A k \in DOMAIN slot : heap'[slot[k]] = heap[slot[k]]
                  /\ (gop[g].pair \in DOMAIN store
                      /\ IsExpired(store[gop[g].pair])) =>
                         ~gobs'[g][1].found /\ ptr'[g] = <<>>
       /\ now' # now => store' = store /\ slot' = slot
       /\ \A k \in validPairs :
              /\ (k \in DOMAIN store /\ k \notin DOMAIN store') => Clears
              /\ (k \in DOMAIN store /\ k \in DOMAIN store'
                  /\ store'[k] # store[k]) => Stores(k)
              /\ (k \notin DOMAIN store /\ k \in DOMAIN store') => Stores(k)
      ]_vars

\* C33 witness: GetLTP has reported an entry not found that is expired and
\* still in the map
C33_Witness ==
    \E g \in Goroutines :
        /\ gpc[g] = "unlock" /\ gop[g].op = "GetLTP"
        /\ ~gobs[g][1].found
        /\ gop[g].pair \in DOMAIN slot
        /\ IsExpired(heap[slot[gop[g].pair]])

-----------------------------------------------------------------------------
(* The property of ParsePairs *)

\* the catalog pair a token stands for once trimmed and upper-cased, <<>> if
\* it stands for none
Meant(tok) ==
    CASE tok = TokUSD -> BTCUSD
      [] tok = TokEUR -> BTCEUR
      [] tok = TokCHF -> BTCCHF
      [] OTHER -> <<>>

\* the index of the first token of str that stands for the pair
FirstAt(str, pair) == Min({i \in 1..Len(str) : Meant(str[i]) = pair})

\* C20: ParsePairs on a non-empty string accepts a token only if, trimmed and
\* upper-cased, it is a catalog pair, and then returns the distinct pairs in
\* the order of their first occurrence; a token that is empty or white space
\* only, like any other token outside the catalog, fails the parse with the
\* invalid-pair error and is neither left out nor taken for the catalog.
C20_ParseNormalisesAndRejects ==
    (parseOut # <<>> /\ parseIn # EmptyStr) =>
        LET r == parseOut[1]
        IN  IF \A i \in 1..Len(parseIn) : Meant(parseIn[i]) # <<>>
            THEN /\ r.err = ""
                 /\ Range(r.pairs) = {Meant(parseIn[i]) : i \in 1..Len(parseIn)}
                 /\ \A i, j \in 1..Len(r.pairs) :
                       i < j => FirstAt(parseIn, r.pairs[i]) < FirstAt(parseIn, r.pairs[j])
            ELSE r.err = "invalid pair" /\ r.pairs = <<>>

\* C20 witness: three tokens in lower case and with white space, one pair
\* twice, parsed into two pairs in the order of first occurrence
C20_Witness ==
    /\ parseIn = <<TokEUR, TokUSD, TokEUR>>
    /\ parseOut = <<[err |-> "", pairs |-> <<BTCEUR, BTCUSD>>]>>

\* C27: ParsePairs never returns the error of the empty set of pairs; on a
\* non-empty string it returns the invalid-pair error with no pair, or no
\* error with at least one pair.
C27_EmptySetErrorUnreachable ==
    parseOut # <<>> =>
        LET r == parseOut[1]
        IN  /\ r.err # "at least one valid pair"
            /\ parseIn # EmptyStr =>
                   \/ r.err = "invalid pair" /\ r.pairs = <<>>
                   \/ r.err = "" /\ Len(r.pairs) >= 1

\* C27 witness: a string of separators and white space only, which holds no
\* pair, has been refused as an invalid pair
C27_Witness ==
    /\ parseIn = <<TokEmpty, TokSpace, TokEmpty>>
    /\ parseOut = <<[err |-> "invalid pair", pairs |-> <<>>]>>

-----------------------------------------------------------------------------
(* What the properties of GetTickers are stated with *)

\* the keys under which the provider may answer for a pair, in the order of
\* precedence: the mapped symbol, "XXBTZ" + suffix, "XXBT" + suffix
KeyOrder(pair) ==
    LET suffix == SubSeq(pair, 5, 7)
    IN  << <<"X", "B", "T">> \o suffix,
           <<"X", "X", "B", "T", "Z">> \o suffix,
           <<"X", "X", "B", "T">> \o suffix >>

\* the first key of KeyOrder(pair) in the result map R, <<>> if there is none
FirstKey(R, pair) ==
    LET ks == KeyOrder(pair)
        in == {i \in 1..3 : ks[i] \in DOMAIN R}
    IN  IF in = {} THEN <<>> ELSE ks[Min(in)]

\* the key that answers for the pair: FirstKey, else the only key of R
ChosenKey(R, pair) ==
    IF FirstKey(R, pair) # <<>> THEN FirstKey(R, pair)
    ELSE IF Cardinality(DOMAIN R) = 1 THEN CHOOSE k \in DOMAIN R : TRUE
    ELSE <<>>

\* a string of decimal digits, after a minus sign or not
Numeral(str) ==
    LET body == IF str # <<>> /\ Head(str) = "-" THEN Tail(str) ELSE str
    IN  /\ body # <<>>
        /\ \A i \in 1..Len(body) :
              body[i] \in {"0", "1", "2", "3", "4", "5", "6", "7", "8", "9"}

\* the ticker data d holds a price
HasPrice(d) == Len(d.C) > 0 /\ d.C[1] # <<>>

\* the pair is answered for in R with a price that is a number
Fine(R, pair) ==
    /\ ChosenKey(R, pair) # <<>>
    /\ HasPrice(R[ChosenKey(R, pair)])
    /\ Numeral(R[ChosenKey(R, pair)].C[1])

\* GetTickers has returned after the GET produced something
Answered == kpc = "done" /\ kresp # <<>>

\* ... and that was a readable JSON body under a success status
Decoded ==
    /\ Answered
    /\ kresp[1].transport = "" /\ kresp[1].StatusCode = StatusOK
    /\ ~kresp[1].readErr /\ kresp[1].json

\* ... with an empty error list, so that the result map was gone through
Mapped == Decoded /\ kresp[1].Error = <<>>

\* the pair at index i is the first of the batch that is not Fine
FirstNotFine(i) ==
    /\ ~Fine(kresp[1].Result, kpairs[i])
    /\ \A j \in 1..(i - 1) : Fine(kresp[1].Result, kpairs[j])

-----------------------------------------------------------------------------
(* The properties of GetTickers *)

\* C12: the key that answers for a pair is the first present of the mapped
\* symbol, "XXBTZ" + suffix and "XXBT" + suffix, whatever other keys there
\* are: a returned quote holds the price under that key, the batch fails if
\* that key's data is bad even when a later key's is good, and the only-key
\* fallback is used only when none of the three is present.
C12_ResolutionPrecedence ==
    Mapped =>
        \A i \in 1..Len(kpairs) :
            LET R == kresp[1].Result
                k == FirstKey(R, kpairs[i])
                f == findKrakenSymbolInResult(R, pairToKrakenSymbol(kpairs[i]))
            IN  /\ k # <<>> =>
                      /\ f.ok /\ f.symbol = k /\ f.tickerData = R[k]
                      /\ kout[1].err = "" =>
                            kout[1].ltps[i].Amount = ParseFloat(R[k].C[1]).value
                      /\ ~(HasPrice(R[k]) /\ Numeral(R[k].C[1])) => kout[1].err # ""
                /\ (f.ok /\ f.symbol \notin Range(KeyOrder(kpairs[i]))) => k = <<>>

\* C12 witness: both variant keys are present with different prices, the
\* mapped symbol is not, and the quote holds the price under "XXBTZ" + suffix
C12_Witness ==
    /\ Mapped /\ kpairs = <<BTCUSD>>
    /\ DOMAIN kresp[1].Result = {XXBTZUSD, XXBTUSD}
    /\ kresp[1].Result[XXBTZUSD].C = << <<"1">> >>
    /\ kresp[1].Result[XXBTUSD].C = << <<"2">> >>
    /\ kout[1].err = "" /\ kout[1].ltps[1].Amount = 1

C14_OneQuotePerPairInOrder ==
    Answered =>
        /\ kout[1].err = "" =>
              /\ Len(kout[1].ltps) = Len(kpairs)
              /\ \A i \in 1..Len(kpairs) : kout[1].ltps[i].Pair = kpairs[i]
        /\ kout[1].err # "" => kout[1].ltps = <<>>
        /\ (Mapped /\ \E i \in 1..Len(kpairs) : ~Fine(kresp[1].Result, kpairs[i])) =>
              kout[1].err # ""

\* C14 witness: a batch that is not in sorted order, answered under variant
\* keys, returns its quotes in the order of the batch
C14_Witness ==
    /\ Mapped /\ kpairs = <<BTCUSD, BTCEUR>>
    /\ DOMAIN kresp[1].Result = {XXBTZUSD, XXBTZEUR}
    /\ kout[1].err = ""
    /\ kout[1].ltps = <<[Pair |-> BTCUSD, Amount |-> 1], [Pair |-> BTCEUR, Amount |-> 2]>>

\* C15: a non-empty error list of the provider fails the batch with the
\* provider error and no quote, whatever the result map holds.
C15_ProviderErrorListFailsBatch ==
    (Decoded /\ kresp[1].Error # <<>>) => kout[1] = Failed("kraken API error", <<>>)

\* C15 witness: the error list is not empty and the result map answers for
\* every pair of the batch with a price that is a number
C15_Witness ==
    /\ Decoded /\ kresp[1].Error # <<>>
    /\ Len(kpairs) = 2
    /\ \A i \in 1..Len(kpairs) : Fine(kresp[1].Result, kpairs[i])
    /\ kout[1].err = "kraken API error"

\* C16: a transport failure fails GetTickers with the call error, and a status
\* other than 200 with the status error; neither returns a quote, whatever
\* the body holds.
C16_TransportAndStatusBeforeBody ==
    Answered =>
        /\ kresp[1].transport # "" =>
              kout[1] = Failed("failed to call Kraken API", <<>>)
        /\ (kresp[1].transport = "" /\ kresp[1].StatusCode # StatusOK) =>
              kout[1] = Failed("kraken API returned status", <<>>)

\* C16 witness: a status other than 200 with a body that answers for every
\* pair of the batch
C16_Witness ==
    /\ Answered /\ kresp[1].transport = "" /\ kresp[1].StatusCode # StatusOK
    /\ kresp[1].json /\ kresp[1].Error = <<>>
    /\ Len(kpairs) = 2
    /\ \A i \in 1..Len(kpairs) : Fine(kresp[1].Result, kpairs[i])
    /\ kout[1].err = "kraken API returned status"

\* C17: for the first pair whose resolved data is bad, GetTickers fails with
\* the invalid-data error when the price list is absent or empty or begins
\* with the empty string, and with the parse error when the first price is
\* not empty and not a number.
C17_InvalidDataOrParseError ==
    Mapped =>
        \A i \in 1..Len(kpairs) :
            LET R == kresp[1].Result
                k == ChosenKey(R, kpairs[i])
            IN  (FirstNotFine(i) /\ k # <<>>) =>
                    /\ ~HasPrice(R[k]) => kout[1] = Failed("invalid ticker data", kpairs[i])
                    /\ HasPrice(R[k]) => kout[1] = Failed("failed to parse amount", kpairs[i])

\* C17 witness: the first price of the second pair is not a number, beside a
\* record with a number
C17_Witness ==
    /\ Mapped /\ kpairs = <<BTCEUR, BTCUSD>>
    /\ DOMAIN kresp[1].Result = {XXBTZEUR, XBTUSD}
    /\ kresp[1].Result[XBTUSD].C = << <<"x">> >>
    /\ kout[1] = Failed("failed to parse amount", BTCUSD)

\* C18: GetTickers on an empty slice fails with the no-pairs error and issues
\* no GET; on any slice it issues at most one.
C18_EmptyBatchIssuesNoGet ==
    /\ gets <= 1
    /\ (kpc = "done" /\ kpairs = <<>>) =>
          /\ kout = <<Failed("no pairs provided", <<>>)>>
          /\ gets = 0
          /\ kresp = <<>>

\* C18 witness: GetTickers has returned on the empty slice
C18_Witness == kpc = "done" /\ kpairs = <<>> /\ kout # <<>>

\* C34: for every pair GetTickers is called with, pairToKrakenSymbol gives
\* "XBT" followed by the quote currency of the pair and not the pair string
\* itself; distinct pairs of the catalog have distinct symbols; and the
\* variants are tried: a result map without the symbol that holds a variant
\* of it answers for the pair under the first such variant.
C34_TableCoversCatalog ==
    /\ \A a, b \in validPairs :
          a # b => pairToKrakenSymbol(a) # pairToKrakenSymbol(b)
    /\ \A i \in 1..Len(kpairs) :
          LET sym == pairToKrakenSymbol(kpairs[i])
          IN  /\ sym # kpairs[i]
              /\ sym = XBT \o SubSeq(kpairs[i], 5, 7)
              /\ sym \in {XBTUSD, XBTCHF, XBTEUR}
              /\ Len(Variants(sym)) = 2
              /\ Mapped =>
                    LET R == kresp[1].Result
                        f == findKrakenSymbolInResult(R, sym)
                        in == {j \in 1..2 : Variants(sym)[j] \in DOMAIN R}
                    IN  (sym \notin DOMAIN R /\ in # {}) =>
                            f.ok /\ f.symbol = Variants(sym)[Min(in)]

\* C34 witness: BTC/CHF is answered for under "XXBTCHF" beside a key that
\* belongs to no pair
C34_Witness ==
    /\ Mapped /\ kpairs = <<BTCCHF>>
    /\ DOMAIN kresp[1].Result = {XXBTCHF, UNKNOWN}
    /\ kout[1].err = "" /\ Len(kout[1].ltps) = 1

\* C28: when GetTickers returns quotes for two or more pairs, no two of the
\* pairs were resolved to the same key of the result map.
C28_NoKeyAnswersTwoPairs ==
    (Mapped /\ kout[1].err = "" /\ Len(kpairs) >= 2) =>
        \A i, j \in 1..Len(kpairs) :
            i # j =>
                findKrakenSymbolInResult(kresp[1].Result,
                                         pairToKrakenSymbol(kpairs[i])).symbol
                # findKrakenSymbolInResult(kresp[1].Result,
                                           pairToKrakenSymbol(kpairs[j])).symbol

\* C21: every quote GetTickers returns has an amount that is not below zero,
\* whatever price string the provider sends.
C21_AmountsNotNegative ==
    (kpc = "done" /\ kout[1].err = "") =>
        \A i \in 1..Len(kout[1].ltps) : kout[1].ltps[i].Amount >= 0

====
